---- MODULE Spec2Model ----
\* Model of the apibara node Sequencer (src/node/src/sequencer.rs): the two
\* persistent tables, the register and invalidate operations translated from
\* their code, and the read-only queries next_output_sequence_start and
\* input_sequence.
EXTENDS Integers, Naturals, Sequences, FiniteSets, TLC

\* ------------------------------------------------------------------ bounds
\* Number of input streams (stream ids 0 .. NumStreams-1).
NumStreams == 2
\* Largest input sequence number a caller passes.
MaxSeq == 1
\* Largest output_len a caller passes (0 is always included).
MaxLen == 1
\* Largest number of rows the SeqMap table holds (register is not called
\* beyond it).
MaxRows == 2

StreamIds == 0 .. (NumStreams - 1)
Sequences == 0 .. MaxSeq
OutputLens == 0 .. MaxLen

\* ------------------------------------------------------------------ state
VARIABLES
    streamState,   \* StreamStateTable: stream_id -> last input sequence
    seqMap,        \* SequencerStateTable: <<stream_id, sequence>> -> output range
    last,          \* the last call made on the sequencer and what it returned
    pre,           \* the tables and the log as they were just before the last call
    regLog,        \* keys of the rows of seqMap in the order they were put
    txn            \* the open read-write transaction of a call, with its own view

seqVars == <<streamState, seqMap, last, pre, regLog, txn>>

\* State of the IngestionService (src/common/src/ingestion/service.rs), of the
\* stores it writes and of the chain provider it reads.
VARIABLES
    provider,      \* the chain the provider reports: head, finalized, fork point
    phase,         \* "New", then IngestionState: "Ingest" or "Recover"; "Stopped" once start returned
    exit,          \* what start returned: "Running" until it returns
    state,         \* IngestState: head, finalized, queued_block_number
    task_queue,    \* FuturesOrdered of the spawned download tasks, oldest first
    chain_builder, \* CanonicalChainBuilder: the blocks of the live tail
    blocks,        \* block store: cursors of the block artifacts written
    segments,      \* chain store: the immutable chain segments written
    recent,        \* chain store: the recent segment and its etag, or None
    kv,            \* IngestionStateClient record: finalized, starting_block, ingested
    cancelled,     \* the cancellation token
    tick           \* the last step of the service loop and what it did

ingVars == <<provider, phase, exit, state, task_queue, chain_builder, blocks,
             segments, recent, kv, cancelled, tick>>

\* State of the SegmentService (src/common/src/compaction/segment.rs), of the
\* chain view it reads and of the stores it writes.
VARIABLES
    chain_view,     \* what the ChainView reports: head, finalized, starting, segmented
    segment_store,  \* block store: the segment artifacts written, <<first block, name>>
    compaction,     \* SegmentService: segment_size and where its loop stands
    seg_exit        \* what SegmentService::start returned: "Running" until it returns

segVars == <<chain_view, segment_store, compaction, seg_exit>>

\* A call of BlockFilterFactory::create_block_filter.
VARIABLES
    request,        \* the factory called and the filters of the request, as
                    \* the bytes decode and compile
    response        \* what create_block_filter returned, code "none" before
                    \* the call

fltVars == <<request, response>>

\* One select! of tick_ingest.
VARIABLES
    ready,          \* which futures of the select are ready, and the task queue
    fired           \* the branches the last select ran, {} before the first

selVars == <<ready, fired>>

\* One call of SegmentService::compact_segment, step by step.
VARIABLES
    block_queue,    \* FuturesOrderedBounded: the downloads pushed and not yet
                    \* taken, oldest first, each with its result once it is done
    compacting      \* the locals of compact_segment, the cursors asked for so
                    \* far and the order in which the downloads completed

pipVars == <<block_queue, compacting>>

\* compact_segment is not running.
PipIdle ==
    /\ block_queue = <<>>
    /\ compacting = [pc |-> "idle"]

\* The ingestion broadcast channel (src/starknet/src/ingestion/subscription.rs
\* and BlockIngestor::live_stream) with its subscribers.
VARIABLES
    channel,        \* the tokio broadcast channel: how many messages were
                    \* sent, and the last ones, which it retains
    streams,        \* per client: the position of its BroadcastStream and the
                    \* items the stream has yielded
    published       \* what the calls of publish returned, in order

bcVars == <<channel, streams, published>>

\* No channel was created.
BcIdle ==
    /\ channel = [tail |-> 0, buffer |-> <<>>]
    /\ streams = <<>>
    /\ published = <<>>

vars == <<seqVars, ingVars, segVars, fltVars, selVars, pipVars, bcVars>>

\* The variables each component leaves alone.
nonSeqVars == <<ingVars, segVars, fltVars, selVars, pipVars, bcVars>>
nonIngVars == <<seqVars, segVars, fltVars, selVars, pipVars, bcVars>>
nonSegVars == <<seqVars, ingVars, fltVars, selVars, pipVars, bcVars>>
nonFltVars == <<seqVars, ingVars, segVars, selVars, pipVars, bcVars>>
nonSelVars == <<seqVars, ingVars, segVars, fltVars, pipVars, bcVars>>
nonPipVars == <<seqVars, ingVars, segVars, fltVars, selVars, bcVars>>
nonBcVars == <<seqVars, ingVars, segVars, fltVars, selVars, pipVars>>

\* No SegmentService is running.
SegIdle ==
    /\ chain_view = [head |-> 0, finalized |-> 0, starting |-> 0, segmented |-> {}]
    /\ segment_store = {}
    /\ compaction = [pc |-> "idle", segment_size |-> 0,
                     first_block_in_segment |-> 0, last_block_in_segment |-> 0,
                     builder |-> <<>>, pending |-> <<>>, outcome |-> "none"]
    /\ seg_exit = "Running"

\* No request was made.
FltIdle ==
    /\ request = [factory |-> "none", filters |-> <<>>]
    /\ response = [code |-> "none", message |-> "none"]

\* No select is polled.
SelIdle ==
    /\ ready = [cancelled |-> FALSE, finalized_refresh_interval |-> FALSE,
                head_refresh_interval |-> FALSE, task_queue |-> <<>>]
    /\ fired = {}

\* IngestionService::new: nothing fetched, nothing written, no task spawned.
IngestionNew ==
    /\ phase = "New"
    /\ exit = "Running"
    /\ state = [head |-> [number |-> 0, hash |-> 0],
                finalized |-> [number |-> 0, hash |-> 0],
                queued_block_number |-> 0]
    /\ task_queue = <<>>
    /\ chain_builder = <<>>
    /\ blocks = {}
    /\ segments = {}
    /\ recent = {}
    /\ kv = [finalized |-> {}, starting_block |-> {}, ingested |-> {}]
    /\ cancelled = FALSE
    /\ tick = [action |-> "new", outcome |-> "none"]

\* No IngestionService was constructed.
IngIdle ==
    /\ provider = [head |-> 0, finalized |-> 0, fork |-> 0]
    /\ IngestionNew

\* Option values: {} is None, {v} is Some(v).
Some(v) == {v}
Unwrap(o) == CHOOSE v \in o : TRUE

MaxOf(S) == CHOOSE x \in S : \A y \in S : y <= x
MinOf(S) == CHOOSE x \in S : \A y \in S : x <= y

\* ----------------------------------------------------------- table cursors
\* Keys of SequencerStateTable are ordered by stream id, then by sequence.
KeyLess(a, b) == a[1] < b[1] \/ (a[1] = b[1] /\ a[2] < b[2])

\* cursor.seek_exact(key): the entry at key, if there is one.
seek_exact(table, key) == IF key \in DOMAIN table THEN Some(key) ELSE {}

\* sequencer_cursor.prev() after the entry at `key` was deleted: the entry
\* with the greatest key below `key`, if there is one.
cursor_prev(table, key) ==
    LET below == {k \in DOMAIN table : KeyLess(k, key)}
    IN  IF below = {} THEN {}
        ELSE Some(CHOOSE k \in below : \A j \in below : j = k \/ KeyLess(j, k))

\* stream_cursor.first(): the entry with the least stream id.
cursor_first(table) == IF DOMAIN table = {} THEN {} ELSE Some(MinOf(DOMAIN table))

\* stream_cursor.next() when the cursor is (or was, before a del) at
\* stream_id: the entry with the least stream id above it.
cursor_next(table, stream_id) ==
    LET above == {s \in DOMAIN table : s > stream_id}
    IN  IF above = {} THEN {} ELSE Some(MinOf(above))

cursor_put(table, key, value) ==
    [k \in DOMAIN table \cup {key} |-> IF k = key THEN value ELSE table[k]]

cursor_del(table, key) == [k \in DOMAIN table \ {key} |-> table[k]]

\* ------------------------------------------------------------ call results
Result(op, stream_id, sequence, output_len, status) ==
    [op |-> op, stream |-> stream_id, sequence |-> sequence,
     output_len |-> output_len, status |-> status,
     expected |-> 0, actual |-> 0, current |-> 0,
     start |-> 0, end |-> 0, value |-> 0]

Tables(ss, sm) == [streamState |-> ss, seqMap |-> sm]

Snapshot(ss, sm, log) == [streamState |-> ss, seqMap |-> sm, regLog |-> log]

\* No transaction is open.
NoTxn ==
    [pc |-> "idle", ss |-> <<>>, sm |-> <<>>, cursor |-> {}, target |-> 0,
     res |-> Result("none", 0, 0, 0, "Ok")]

\* ------------------------------------------- output_sequence_start_with_cursor
\* Walks the stream table in key order; for each stream reads the row of its
\* last input and keeps the maximum output_sequence_end.
RECURSIVE output_sequence_start_loop(_, _, _, _)
output_sequence_start_loop(ss, sm, stream, output_sequence_start) ==
    IF stream = {}
    THEN [status |-> "Ok",
          value |-> IF output_sequence_start = {} THEN 0
                    ELSE Unwrap(output_sequence_start)]
    ELSE LET stream_id == Unwrap(stream)
             row == seek_exact(sm, <<stream_id, ss[stream_id]>>)
         IN  IF row = {}
             THEN [status |-> "InputSequenceNotFound", value |-> 0]
             ELSE LET output_sequence == sm[Unwrap(row)].output_sequence_end
                      next_start ==
                          IF output_sequence_start = {} THEN Some(output_sequence)
                          ELSE Some(MaxOf({Unwrap(output_sequence_start),
                                           output_sequence}))
                  IN  output_sequence_start_loop(
                          ss, sm, cursor_next(ss, stream_id), next_start)

output_sequence_start_with_cursor(ss, sm) ==
    output_sequence_start_loop(ss, sm, cursor_first(ss), {})

\* Sequencer::next_output_sequence_start
next_output_sequence_start(ss, sm) == output_sequence_start_with_cursor(ss, sm)

\* Sequencer::input_sequence
input_sequence(ss, stream_id) ==
    IF stream_id \in DOMAIN ss THEN Some(ss[stream_id]) ELSE {}

\* ---------------------------------------------------------------- register
\* The check of register_with_txn on the input sequence number: a stream
\* that has a state only accepts the successor of its last input.
input_sequence_rejected_gap_only(ss, stream_id, sequence) ==
    /\ stream_id \in DOMAIN ss
    /\ sequence > ss[stream_id] + 1

input_sequence_rejected(ss, stream_id, sequence) ==
    /\ stream_id \in DOMAIN ss
    /\ sequence # ss[stream_id] + 1

\* The output range given to an input that produces output_len messages.
output_range_unshifted(output_sequence_start, output_len) ==
    [output_sequence_start |-> output_sequence_start,
     output_sequence_end |-> output_len]

output_range(output_sequence_start, output_len) ==
    [output_sequence_start |-> output_sequence_start,
     output_sequence_end |-> output_sequence_start + output_len]

\* Sequencer::register, with the transaction it runs in: on an error nothing
\* was written and the transaction is dropped. output_len is read only once
\* the input sequence is accepted and the output start found, so a failed
\* call is recorded without it.
register(ss, sm, stream_id, sequence, output_len) ==
    LET failed == Result("register", stream_id, sequence, 0, "Ok")
    IN  IF input_sequence_rejected(ss, stream_id, sequence)
        THEN [res |-> [failed EXCEPT !.status = "InvalidInputSequence",
                                     !.expected = ss[stream_id] + 1,
                                     !.actual = sequence],
              ss |-> ss, sm |-> sm]
        ELSE LET out == output_sequence_start_with_cursor(ss, sm)
             IN  IF out.status # "Ok"
                 THEN [res |-> [failed EXCEPT !.status = out.status],
                       ss |-> ss, sm |-> sm]
                 ELSE LET range == output_range(out.value, output_len)
                      IN  [res |-> [failed EXCEPT
                                       !.output_len = output_len,
                                       !.start = range.output_sequence_start,
                                       !.end = range.output_sequence_end],
                           ss |-> cursor_put(ss, stream_id, sequence),
                           sm |-> cursor_put(sm, <<stream_id, sequence>>, range)]

\* -------------------------------------------------------------- invalidate
\* The check of invalidate on the invalidated sequence number.
invalidate_sequence_rejected_reversed(state_sequence, sequence) ==
    state_sequence > sequence

invalidate_sequence_rejected(state_sequence, sequence) ==
    state_sequence < sequence

\* The test that decides whether a row is deleted.
row_is_invalidated(row, first_invalidated_output_sequence_start) ==
    row.output_sequence_end > first_invalidated_output_sequence_start

\* The inner loop of invalidate: from the row the cursor is at, walk the rows
\* backwards. `sequencer` is the row under the cursor, `del_stream` tells
\* whether the loop deleted the stream's state.
RECURSIVE invalidate_rows(_, _, _, _, _)
invalidate_rows(sm, stream_id, sequencer, target, new_stream_sequence) ==
    IF sequencer = {}
    THEN [sm |-> sm, new_stream_sequence |-> new_stream_sequence,
          del_stream |-> FALSE]
    ELSE LET key == Unwrap(sequencer)
         IN  IF key[1] # stream_id
             THEN [sm |-> sm, new_stream_sequence |-> {}, del_stream |-> TRUE]
             ELSE IF row_is_invalidated(sm[key], target)
                  THEN LET deleted == cursor_del(sm, key)
                       IN  invalidate_rows(deleted, stream_id,
                                           cursor_prev(deleted, key), target,
                                           Some(key[2]))
                  ELSE [sm |-> sm, new_stream_sequence |-> Some(key[2]),
                        del_stream |-> FALSE]

\* One iteration of the outer loop of invalidate: the rows of stream_id are
\* walked and its stream state deleted or rewritten.
invalidate_stream_step(ss, sm, stream_id, target) ==
    LET walked == invalidate_rows(
                      sm, stream_id,
                      seek_exact(sm, <<stream_id, ss[stream_id]>>),
                      target, {})
        deleted == IF walked.del_stream THEN cursor_del(ss, stream_id)
                   ELSE ss
        updated == IF walked.new_stream_sequence # {}
                   THEN cursor_put(deleted, stream_id,
                                   Unwrap(walked.new_stream_sequence))
                   ELSE deleted
    IN  Tables(updated, walked.sm)

\* The outer loop of invalidate: every stream of the stream table, in key
\* order.
RECURSIVE invalidate_streams(_, _, _, _)
invalidate_streams(ss, sm, stream, target) ==
    IF stream = {}
    THEN Tables(ss, sm)
    ELSE LET stream_id == Unwrap(stream)
             step == invalidate_stream_step(ss, sm, stream_id, target)
         IN  invalidate_streams(step.streamState, step.seqMap,
                                cursor_next(step.streamState, stream_id),
                                target)

\* Sequencer::invalidate.
invalidate(ss, sm, stream_id, sequence) ==
    LET call == Result("invalidate", stream_id, sequence, 0, "Ok")
    IN  IF seek_exact(ss, stream_id) = {}
        THEN [res |-> [call EXCEPT !.status = "InputSequenceNotFound"],
              ss |-> ss, sm |-> sm]
        ELSE IF invalidate_sequence_rejected(ss[stream_id], sequence)
        THEN [res |-> [call EXCEPT !.status = "InvalidInvalidateSequence",
                                   !.current = ss[stream_id],
                                   !.actual = sequence],
              ss |-> ss, sm |-> sm]
        ELSE IF seek_exact(sm, <<stream_id, sequence>>) = {}
        THEN [res |-> [call EXCEPT !.status = "InputSequenceNotFound"],
              ss |-> ss, sm |-> sm]
        ELSE LET target == sm[<<stream_id, sequence>>].output_sequence_start
                 after == invalidate_streams(ss, sm, cursor_first(ss), target)
             IN  [res |-> [call EXCEPT !.value = target],
                  ss |-> after.streamState, sm |-> after.seqMap]

\* ----------------------------------------------------------------- actions
\* Sequencer::new on an empty environment: both tables exist and are empty.
SeqInit ==
    /\ streamState = <<>>
    /\ seqMap = <<>>
    /\ last = Result("new", 0, 0, 0, "Ok")
    /\ pre = Snapshot(<<>>, <<>>, <<>>)
    /\ regLog = <<>>
    /\ txn = NoTxn
    /\ IngIdle
    /\ SegIdle
    /\ FltIdle
    /\ SelIdle
    /\ PipIdle
    /\ BcIdle

\* The keys of log that still have a row, followed by the key just put.
LogAfter(log, sm, put) ==
    LET kept == SelectSeq(log, LAMBDA k : k \in DOMAIN sm /\ k \notin put)
    IN  IF put = {} THEN kept ELSE Append(kept, Unwrap(put))

Register ==
    \E stream_id \in StreamIds, sequence \in Sequences, output_len \in OutputLens :
        /\ Cardinality(DOMAIN seqMap) < MaxRows
        /\ LET r == register(streamState, seqMap, stream_id, sequence, output_len)
           IN  /\ streamState' = r.ss
               /\ seqMap' = r.sm
               /\ last' = r.res
               /\ pre' = Snapshot(streamState, seqMap, regLog)
               /\ regLog' = LogAfter(regLog, r.sm,
                                     IF r.res.status = "Ok"
                                     THEN Some(<<stream_id, sequence>>) ELSE {})
               /\ UNCHANGED <<txn, nonSeqVars>>

Invalidate ==
    \E stream_id \in StreamIds, sequence \in Sequences :
        LET r == invalidate(streamState, seqMap, stream_id, sequence)
        IN  /\ streamState' = r.ss
            /\ seqMap' = r.sm
            /\ last' = r.res
            /\ pre' = Snapshot(streamState, seqMap, regLog)
            /\ regLog' = LogAfter(regLog, r.sm, {})
            /\ UNCHANGED <<txn, nonSeqVars>>

SeqNext == Register \/ Invalidate

SeqSpec == SeqInit /\ [][SeqNext]_vars

\* ------------------------------------------------- vocabulary of the claims
Rows == DOMAIN seqMap
PreRows == DOMAIN pre.seqMap
OutRange(row) == row.output_sequence_start .. (row.output_sequence_end - 1)
OutEnds(sm) == {sm[k].output_sequence_end : k \in DOMAIN sm}
SeqsOf(sm, stream_id) == {k[2] : k \in {r \in DOMAIN sm : r[1] = stream_id}}

Nos == next_output_sequence_start(streamState, seqMap)
PreNos == next_output_sequence_start(pre.streamState, pre.seqMap)

LastKey == <<last.stream, last.sequence>>
RegisterOk == last.op = "register" /\ last.status = "Ok"
InvalidateOk == last.op = "invalidate" /\ last.status = "Ok"
TablesUnchanged == streamState = pre.streamState /\ seqMap = pre.seqMap

\* Position of a key in a log of distinct keys (0 when absent).
PosIn(log, key) ==
    IF \E i \in 1 .. Len(log) : log[i] = key
    THEN CHOOSE i \in 1 .. Len(log) : log[i] = key
    ELSE 0
\* The rows that were registered after `key`, before the last call.
PreRegisteredAfter(key) ==
    {r \in PreRows : PosIn(pre.regLog, r) > PosIn(pre.regLog, key)}

\* ------------------------------------------------------------------ claims
\* C1: in every reachable state the output ranges of the rows of SeqMap are
\* pairwise disjoint and their union is exactly
\* [0, next_output_sequence_start()).
C1_OutputRangesPartition ==
    /\ Nos.status = "Ok"
    /\ \A a \in Rows : \A b \in Rows :
           a # b => OutRange(seqMap[a]) \cap OutRange(seqMap[b]) = {}
    /\ UNION {OutRange(seqMap[k]) : k \in Rows} = 0 .. (Nos.value - 1)

\* C2: in every reachable state next_output_sequence_start() succeeds and
\* equals the maximum out_end over all rows (0 when there is no row).
C2_NextOutputIsMaxEnd ==
    /\ Nos.status = "Ok"
    /\ Nos.value = (IF Rows = {} THEN 0 ELSE MaxOf(OutEnds(seqMap)))

\* C3: for every stream the input sequences that have a row are exactly
\* {0, ..., last_input_seq}, and a stream has a StreamState entry iff it has
\* at least one row.
C3_InputSeqsArePrefix ==
    \A s \in StreamIds :
        IF s \in DOMAIN streamState
        THEN SeqsOf(seqMap, s) = 0 .. streamState[s]
        ELSE SeqsOf(seqMap, s) = {}

\* C4: a successful register(S, k, n) immediately followed by
\* invalidate(S, k) leaves both tables as they were before the register.
C4_RegisterInvalidateRoundTrip ==
    [][(/\ RegisterOk
        /\ last'.op = "invalidate"
        /\ last'.stream = last.stream
        /\ last'.sequence = last.sequence)
       => (/\ streamState' = pre.streamState
           /\ seqMap' = pre.seqMap)]_vars

\* C5: register(S, k, n) on a stream whose StreamState holds s succeeds only
\* if k = s + 1; otherwise it fails with
\* InvalidInputSequence{expected: s + 1, actual: k} and changes no table.
C5_RegisterRequiresSuccessor ==
    (last.op = "register" /\ last.stream \in DOMAIN pre.streamState) =>
        LET s == pre.streamState[last.stream]
        IN  /\ last.status = "Ok" => last.sequence = s + 1
            /\ last.sequence # s + 1 =>
                   /\ last.status = "InvalidInputSequence"
                   /\ last.expected = s + 1
                   /\ last.actual = last.sequence
                   /\ TablesUnchanged

\* C5 witness: a register with a wrong input sequence was rejected on a
\* stream that has a state.
C5_Witness ==
    /\ last.op = "register"
    /\ last.stream \in DOMAIN pre.streamState
    /\ last.sequence # pre.streamState[last.stream] + 1
    /\ last.status = "InvalidInputSequence"

\* C6: a successful register(S, k, n) returns [out_start, out_start + n) with
\* out_start the value of next_output_sequence_start() before the call (0 on
\* an empty sequencer); afterwards next_output_sequence_start() is
\* out_start + n, input_sequence(S) is k and the input sequence of every
\* other stream is unchanged.
C6_RegisterReturnsNextRange ==
    RegisterOk =>
        /\ PreNos.status = "Ok"
        /\ last.start = PreNos.value
        /\ last.end = last.start + last.output_len
        /\ (PreRows = {} /\ DOMAIN pre.streamState = {}) => last.start = 0
        /\ last.output_len = 0 => OutRange(seqMap[LastKey]) = {}
        /\ seqMap[LastKey] = [output_sequence_start |-> last.start,
                              output_sequence_end |-> last.end]
        /\ Nos.status = "Ok"
        /\ Nos.value = last.start + last.output_len
        /\ input_sequence(streamState, last.stream) = Some(last.sequence)
        /\ \A s \in StreamIds \ {last.stream} :
               input_sequence(streamState, s) = input_sequence(pre.streamState, s)

\* C6 witness: a register that produced output succeeded behind the rows of
\* another stream.
C6_Witness ==
    /\ RegisterOk
    /\ last.output_len > 0
    /\ last.start > 0
    /\ \E s \in DOMAIN streamState : s # last.stream

\* C7: after a successful invalidate(S, k) the row (S, k), every row (S, j)
\* with j > k and every row of any stream registered after (S, k) are gone,
\* and input_sequence(S) is k - 1, or None when k was the first input of S.
C7_InvalidateRemovesTail ==
    InvalidateOk =>
        /\ LastKey \notin Rows
        /\ \A j \in SeqsOf(seqMap, last.stream) : j < last.sequence
        /\ PreRegisteredAfter(LastKey) \cap Rows = {}
        /\ input_sequence(streamState, last.stream) =
               (IF \E j \in SeqsOf(pre.seqMap, last.stream) : j < last.sequence
                THEN Some(last.sequence - 1)
                ELSE {})

\* C8: after a successful invalidate every stream with a surviving row has
\* its StreamState at the highest surviving input, every stream without one
\* has no StreamState; and no StreamState entry ever points to a row that
\* does not exist.
C8_StreamStateFollowsRows ==
    /\ InvalidateOk =>
           \A s \in StreamIds :
               IF SeqsOf(seqMap, s) # {}
               THEN input_sequence(streamState, s) = Some(MaxOf(SeqsOf(seqMap, s)))
               ELSE input_sequence(streamState, s) = {}
    /\ \A s \in DOMAIN streamState : <<s, streamState[s]>> \in Rows

\* C9: a successful invalidate(S, k) returns t, the out_start of row (S, k);
\* right afterwards next_output_sequence_start() is t and register(S, k, n)
\* succeeds and returns [t, t + n).
C9_InvalidateThenReplay ==
    InvalidateOk =>
        /\ last.value = pre.seqMap[LastKey].output_sequence_start
        /\ Nos.status = "Ok"
        /\ Nos.value = last.value
        /\ \A n \in OutputLens :
               LET r == register(streamState, seqMap, last.stream,
                                 last.sequence, n)
               IN  /\ r.res.status = "Ok"
                   /\ r.res.start = last.value
                   /\ r.res.end = last.value + n

\* C10: invalidate(S, k) fails with InputSequenceNotFound when S has no
\* StreamState or the row (S, k) does not exist, with
\* InvalidInvalidateSequence{current, actual: k} when k is greater than the
\* last input of S, and a failed invalidate changes no table.
C10_InvalidateErrors ==
    last.op = "invalidate" =>
        LET no_state == last.stream \notin DOMAIN pre.streamState
            too_high == ~no_state /\ last.sequence > pre.streamState[last.stream]
            no_row == LastKey \notin PreRows
        IN  /\ no_state => last.status = "InputSequenceNotFound"
            /\ too_high =>
                   /\ last.status = "InvalidInvalidateSequence"
                   /\ last.current = pre.streamState[last.stream]
                   /\ last.actual = last.sequence
            /\ (~no_state /\ ~too_high /\ no_row) =>
                   last.status = "InputSequenceNotFound"
            /\ last.status # "Ok" => TablesUnchanged

\* C10 witness: an invalidate above the last input of a stream that has rows
\* was rejected.
C10_Witness ==
    /\ last.op = "invalidate"
    /\ last.stream \in DOMAIN pre.streamState
    /\ last.sequence > pre.streamState[last.stream]
    /\ last.status = "InvalidInvalidateSequence"
    /\ Rows # {}

\* C11: in an invalidate with invalidation point target, an empty row at
\* [target, target) registered before the invalidated input is preserved, and
\* an empty row registered after the invalidated input is deleted, also when
\* its range is [target, target).
C11_EmptyRowsAroundTarget ==
    InvalidateOk =>
        LET target == last.value
            empty == {r \in PreRows :
                         pre.seqMap[r].output_sequence_start =
                             pre.seqMap[r].output_sequence_end}
        IN  \A r \in empty :
                /\ (/\ pre.seqMap[r].output_sequence_end = target
                    /\ PosIn(pre.regLog, r) < PosIn(pre.regLog, LastKey))
                   => (r \in Rows /\ seqMap[r] = pre.seqMap[r])
                /\ r \in PreRegisteredAfter(LastKey) => r \notin Rows

\* ------------------------------------------ the calls, one write at a time
\* The same two operations with their transaction made visible: every call
\* opens a read-write transaction (begin_rw_txn), reads and writes through
\* the cursors of that transaction, and commits. streamState and seqMap are
\* the tables as persisted in the environment; txn.ss and txn.sm are the
\* tables as the open transaction sees them. The process may crash between
\* any two steps.

\* What the environment holds after a cursor write inside the transaction.
persisted_after_put_unbuffered(persisted, view) == view

persisted_after_put(persisted, view) == persisted

\* What the environment holds after txn.commit().
persisted_after_commit(persisted, view) == view

Persisted == Tables(streamState, seqMap)

\* register: begin_rw_txn, the check of the input sequence and the search of
\* the output start; an error returns before any write and drops the
\* transaction.
TxnBeginRegister ==
    \E stream_id \in StreamIds, sequence \in Sequences, output_len \in OutputLens :
        /\ txn.pc = "idle"
        /\ Cardinality(DOMAIN seqMap) < MaxRows
        /\ LET r == register(streamState, seqMap, stream_id, sequence, output_len)
           IN  /\ pre' = Snapshot(streamState, seqMap, regLog)
               /\ IF r.res.status = "Ok"
                  THEN /\ txn' = [NoTxn EXCEPT !.pc = "put_stream",
                                               !.ss = streamState,
                                               !.sm = seqMap,
                                               !.res = r.res]
                       /\ last' = [r.res EXCEPT !.status = "Running"]
                  ELSE /\ last' = r.res
                       /\ UNCHANGED <<txn, nonSeqVars>>
        /\ UNCHANGED <<streamState, seqMap, regLog, nonSeqVars>>

\* register: stream_cursor.put of the new stream state.
TxnPutStreamState ==
    /\ txn.pc = "put_stream"
    /\ LET view == Tables(cursor_put(txn.ss, txn.res.stream, txn.res.sequence),
                          txn.sm)
           env == persisted_after_put(Persisted, view)
       IN  /\ txn' = [txn EXCEPT !.pc = "put_row", !.ss = view.streamState]
           /\ streamState' = env.streamState
           /\ seqMap' = env.seqMap
    /\ UNCHANGED <<last, pre, regLog, nonSeqVars>>

\* register: sequencer_cursor.put of the new row.
TxnPutRow ==
    /\ txn.pc = "put_row"
    /\ LET view == Tables(txn.ss,
                          cursor_put(txn.sm,
                                     <<txn.res.stream, txn.res.sequence>>,
                                     [output_sequence_start |-> txn.res.start,
                                      output_sequence_end |-> txn.res.end]))
           env == persisted_after_put(Persisted, view)
       IN  /\ txn' = [txn EXCEPT !.pc = "commit", !.sm = view.seqMap]
           /\ streamState' = env.streamState
           /\ seqMap' = env.seqMap
    /\ UNCHANGED <<last, pre, regLog, nonSeqVars>>

\* invalidate: begin_rw_txn and the three checks; an error returns before any
\* write.
TxnBeginInvalidate ==
    \E stream_id \in StreamIds, sequence \in Sequences :
        /\ txn.pc = "idle"
        /\ LET r == invalidate(streamState, seqMap, stream_id, sequence)
           IN  /\ pre' = Snapshot(streamState, seqMap, regLog)
               /\ IF r.res.status = "Ok"
                  THEN /\ txn' = [NoTxn EXCEPT !.pc = "walk",
                                               !.ss = streamState,
                                               !.sm = seqMap,
                                               !.cursor = cursor_first(streamState),
                                               !.target = r.res.value,
                                               !.res = r.res]
                       /\ last' = [r.res EXCEPT !.status = "Running"]
                  ELSE /\ last' = r.res
                       /\ UNCHANGED <<txn, nonSeqVars>>
        /\ UNCHANGED <<streamState, seqMap, regLog, nonSeqVars>>

\* invalidate: one iteration of the loop over the streams; when
\* stream_cursor.next() finds no stream the loop ends.
TxnWalkStream ==
    /\ txn.pc = "walk"
    /\ IF txn.cursor = {}
       THEN /\ txn' = [txn EXCEPT !.pc = "commit"]
            /\ UNCHANGED <<streamState, seqMap>>
       ELSE LET stream_id == Unwrap(txn.cursor)
                view == invalidate_stream_step(txn.ss, txn.sm, stream_id,
                                               txn.target)
                env == persisted_after_put(Persisted, view)
            IN  /\ txn' = [txn EXCEPT
                              !.ss = view.streamState,
                              !.sm = view.seqMap,
                              !.cursor = cursor_next(view.streamState, stream_id)]
                /\ streamState' = env.streamState
                /\ seqMap' = env.seqMap
    /\ UNCHANGED <<last, pre, regLog, nonSeqVars>>

\* txn.commit(): the writes of the transaction reach the environment at once.
TxnCommit ==
    /\ txn.pc = "commit"
    /\ LET env == persisted_after_commit(Persisted, Tables(txn.ss, txn.sm))
       IN  /\ streamState' = env.streamState
           /\ seqMap' = env.seqMap
    /\ txn' = [txn EXCEPT !.pc = "committed"]
    /\ UNCHANGED <<last, pre, regLog, nonSeqVars>>

\* The call returns its result to the caller.
TxnReturn ==
    /\ txn.pc = "committed"
    /\ last' = txn.res
    /\ regLog' = LogAfter(regLog, seqMap,
                          IF txn.res.op = "register"
                          THEN Some(<<txn.res.stream, txn.res.sequence>>) ELSE {})
    /\ txn' = NoTxn
    /\ UNCHANGED <<streamState, seqMap, pre, nonSeqVars>>

\* The process crashes inside a call: the open transaction is lost, the
\* environment keeps what it held.
TxnCrash ==
    /\ txn.pc # "idle"
    /\ last' = [txn.res EXCEPT !.status = "Crashed"]
    /\ regLog' = LogAfter(regLog, seqMap,
                          IF txn.res.op = "register" /\ txn.pc = "committed"
                          THEN Some(<<txn.res.stream, txn.res.sequence>>) ELSE {})
    /\ txn' = NoTxn
    /\ UNCHANGED <<streamState, seqMap, pre, nonSeqVars>>

SeqTxnNext ==
    \/ TxnBeginRegister
    \/ TxnPutStreamState
    \/ TxnPutRow
    \/ TxnBeginInvalidate
    \/ TxnWalkStream
    \/ TxnCommit
    \/ TxnReturn
    \/ TxnCrash

SeqTxnSpec == SeqInit /\ [][SeqTxnNext]_vars

\* The tables a call leaves when it runs to completion from the tables `before`.
CompletedCall(res, before) ==
    IF res.op = "register"
    THEN LET r == register(before.streamState, before.seqMap, res.stream,
                           res.sequence, res.output_len)
         IN  Tables(r.ss, r.sm)
    ELSE LET r == invalidate(before.streamState, before.seqMap, res.stream,
                             res.sequence)
         IN  Tables(r.ss, r.sm)

PreTables == Tables(pre.streamState, pre.seqMap)

\* C12: at every point inside register or invalidate, and after a crash at
\* any such point, the persisted tables are either the tables before the call
\* or the tables after the completed call, never an intermediate state.
C12_CallsAreAtomic ==
    /\ txn.pc # "idle" =>
           Persisted \in {PreTables, CompletedCall(txn.res, PreTables)}
    /\ txn.pc \in {"put_stream", "put_row", "walk", "commit"} =>
           Persisted = PreTables
    /\ txn.pc = "committed" => Persisted = CompletedCall(txn.res, PreTables)
    /\ (txn.pc = "idle" /\ last.status = "Crashed") =>
           Persisted \in {PreTables, CompletedCall(last, PreTables)}

\* C12 witness: an invalidate has truncated some streams in its transaction
\* and has other streams still to walk.
C12_Witness ==
    /\ txn.pc = "walk"
    /\ txn.cursor # {}
    /\ Tables(txn.ss, txn.sm) # PreTables
    /\ Tables(txn.ss, txn.sm) # CompletedCall(txn.res, PreTables)

\* =================================================================
\* IngestionService (src/common/src/ingestion/service.rs)
\* =================================================================

\* ------------------------------------------------------------------ bounds
\* Largest block number the provider ever reports.
MaxBlock == 4
\* Largest block number the provider ever reports as finalized.
MaxFinalized == 1
\* IngestionServiceOptions.
max_concurrent_tasks == 2
chain_segment_size == 2
chain_segment_upload_offset_size == 1
\* Largest override_starting_block; None is always included.
MaxStartingBlock == 1
\* override_starting_block.unwrap_or(0) with no override.
starting_block_default == 0

BlockNumbers == 0 .. MaxBlock
StartingBlockOptions == {{}} \union {{n} : n \in 1 .. MaxStartingBlock}
\* provider.fork when the provider never replaced a block.
NoFork == MaxBlock + 1

\* ---------------------------------------------------------------- provider
Cursor(number, hash) == [number |-> number, hash |-> hash]

\* The provider's chain: the blocks from the fork point on were replaced by
\* blocks with another hash.
ProviderHash(p, n) == IF n >= p.fork THEN 1 ELSE 0

\* BlockInfo of block n as the provider serves it: number, hash and the hash
\* of its parent.
ProviderBlock(p, n) ==
    [number |-> n,
     hash |-> ProviderHash(p, n),
     parent |-> IF n = 0 THEN 0 ELSE ProviderHash(p, n - 1)]

get_head_cursor(p) == Cursor(p.head, ProviderHash(p, p.head))
get_finalized_cursor(p) == Cursor(p.finalized, ProviderHash(p, p.finalized))

\* BlockInfo::cursor and the cursor of the parent block.
cursor(b) == Cursor(b.number, b.hash)
parent_cursor(b) == Cursor(b.number - 1, b.parent)

\* ----------------------------------------------------- CanonicalChainBuilder
Last(q) == q[Len(q)]

can_grow_always(builder, b) == TRUE

\* can_grow: an empty builder takes any block; otherwise the block must be
\* the child of the tip.
can_grow(builder, b) ==
    \/ builder = <<>>
    \/ /\ parent_cursor(b) = cursor(Last(builder))
       /\ b.number = Last(builder).number + 1

grow(builder, b) == Append(builder, b)

segment_size(builder) == Len(builder)

\* take_segment(n): the first n blocks leave the builder and form a segment.
take_segment(builder, n) ==
    [segment |-> SubSeq(builder, 1, n),
     builder |-> SubSeq(builder, n + 1, Len(builder))]

\* current_segment: the live tail held by the builder.
current_segment(builder) == builder

\* ------------------------------------------------------------ download tasks
\* A task spawned by push_ingest_block_by_number; info is the BlockInfo it
\* returns once it is done.
Task(block_number) == [number |-> block_number, status |-> "running", info |-> {}]

can_push_task_always(queue) == TRUE

\* `self.task_queue.len() < self.options.max_concurrent_tasks`
can_push_task(queue) == Len(queue) < max_concurrent_tasks

\* The loop `while self.can_push_task()` of tick_ingest: push one task per
\* block after block_number, up to head_number.
RECURSIVE push_tasks(_, _, _)
push_tasks(queue, block_number, head_number) ==
    IF can_push_task(queue) /\ ~(block_number + 1 > head_number)
    THEN push_tasks(Append(queue, Task(block_number + 1)), block_number + 1,
                    head_number)
    ELSE [queue |-> queue, block_number |-> block_number]

\* ------------------------------------------------------------------ stores
\* ChainStore::put_recent: the recent segment is replaced and gets a new etag.
put_recent(old, segment) ==
    [segment |-> segment,
     etag |-> IF old = {} THEN 1 ELSE Unwrap(old).etag + 1]

Tick(action, outcome) == [action |-> action, outcome |-> outcome]

SeqIdle ==
    /\ streamState = <<>>
    /\ seqMap = <<>>
    /\ last = Result("new", 0, 0, 0, "Ok")
    /\ pre = Snapshot(<<>>, <<>>, <<>>)
    /\ regLog = <<>>
    /\ txn = NoTxn

\* A new service in front of a provider whose chain has some head and some
\* finalized block, and of empty stores.
IngInit ==
    /\ SeqIdle
    /\ provider \in {[head |-> h, finalized |-> f, fork |-> NoFork] :
                        h \in BlockNumbers, f \in 0 .. MaxFinalized}
    /\ provider.finalized <= provider.head
    /\ IngestionNew
    /\ SegIdle
    /\ FltIdle
    /\ SelIdle
    /\ PipIdle
    /\ BcIdle

\* start returns: the loop is over.
Returns(code, action, outcome) ==
    /\ phase' = "Stopped"
    /\ exit' = code
    /\ tick' = Tick(action, outcome)

IngestState_from_genesis(starting_cursor, finalized, head) ==
    [head |-> head, finalized |-> finalized, queued_block_number |-> 0]

\* The IngestState initialize returns, on both of its paths.
IngestState(starting_cursor, finalized, head) ==
    [head |-> head, finalized |-> finalized,
     queued_block_number |-> starting_cursor.number]

\* override_starting_block.unwrap_or(0)
unwrap_or_default(override_starting_block) ==
    IF override_starting_block = {}
    THEN starting_block_default
    ELSE Unwrap(override_starting_block)

\* initialize, on stores without a recent segment: put_finalized,
\* put_starting_block, then the starting block is ingested and grown; the
\* download fails when the provider has no such block.
Initialize ==
    \E override_starting_block \in StartingBlockOptions :
        /\ phase = "New"
        /\ recent = {}
        /\ LET head == get_head_cursor(provider)
               finalized == get_finalized_cursor(provider)
               starting_block == unwrap_or_default(override_starting_block)
               block_info == ProviderBlock(provider, starting_block)
           IN  /\ kv' = [kv EXCEPT !.finalized = Some(finalized.number),
                                   !.starting_block = Some(starting_block)]
               /\ IF starting_block <= provider.head
                  THEN /\ blocks' = blocks \union {cursor(block_info)}
                       /\ chain_builder' = grow(chain_builder, block_info)
                       /\ state' = IngestState(cursor(block_info), finalized, head)
                       /\ phase' = "Ingest"
                       /\ tick' = Tick("initialize", "start")
                       /\ UNCHANGED exit
                  ELSE /\ Returns("RpcRequest", "initialize", "failed")
                       /\ UNCHANGED <<blocks, chain_builder, state>>
        /\ UNCHANGED <<provider, task_queue, segments, recent, cancelled>>
        /\ UNCHANGED nonIngVars

loop_cancelled_result_error == "Cancelled"

\* `return Ok(())` of the cancelled loop.
loop_cancelled_result == "Ok"

\* start: `if ct.is_cancelled() { return Ok(()) }` at the top of the loop.
LoopCancelled ==
    /\ phase \in {"Ingest", "Recover"}
    /\ cancelled
    /\ Returns(loop_cancelled_result, "stop", "cancelled")
    /\ UNCHANGED <<provider, state, task_queue, chain_builder, blocks,
                   segments, recent, kv, cancelled>>
    /\ UNCHANGED nonIngVars

\* start: lock.keep_alive() fails.
KeepAliveFailed ==
    /\ phase \in {"Ingest", "Recover"}
    /\ ~cancelled
    /\ Returns("LockKeepAlive", "keep_alive", "failed")
    /\ UNCHANGED <<provider, state, task_queue, chain_builder, blocks,
                   segments, recent, kv, cancelled>>
    /\ UNCHANGED nonIngVars

\* tick_ingest, branch `ct.cancelled()`: the state is returned as it is.
TickCancelled ==
    /\ phase = "Ingest"
    /\ cancelled
    /\ tick.action # "cancelled"
    /\ tick' = Tick("cancelled", "unchanged")
    /\ UNCHANGED <<provider, phase, exit, state, task_queue, chain_builder,
                   blocks, segments, recent, kv, cancelled>>
    /\ UNCHANGED nonIngVars

finalized_is_behind_never(old, new) == FALSE

\* `state.finalized.number > finalized.number`: the new finalized cursor is
\* behind the old one.
finalized_is_behind(old, new) == old.number > new.number

\* tick_ingest, branch finalized_refresh_interval.tick() ("refresh_finalized").
RefreshFinalized ==
    /\ phase = "Ingest"
    /\ ~cancelled
    /\ LET finalized == get_finalized_cursor(provider)
       IN  IF finalized_is_behind(state.finalized, finalized)
           THEN /\ Returns("Model", "refresh_finalized", "behind")
                /\ UNCHANGED <<state, kv>>
           ELSE IF state.finalized = finalized
           THEN /\ tick' = Tick("refresh_finalized", "unchanged")
                /\ UNCHANGED <<phase, exit, state, kv>>
           ELSE /\ kv' = [kv EXCEPT !.finalized = Some(finalized.number)]
                /\ state' = [state EXCEPT !.finalized = finalized]
                /\ tick' = Tick("refresh_finalized", "updated")
                /\ UNCHANGED <<phase, exit>>
    /\ UNCHANGED <<provider, task_queue, chain_builder, blocks, segments,
                   recent, cancelled>>
    /\ UNCHANGED nonIngVars

\* `state.head.number > head.number`: the new head is lower than the old one.
head_is_shorter(old, new) == old.number > new.number

head_is_replaced_never(old, new) == FALSE

\* `state.head.number == head.number && state.head.hash != head.hash`
head_is_replaced(old, new) == old.number = new.number /\ old.hash # new.hash

\* tick_ingest, branch head_refresh_interval.tick() ("refresh_head").
RefreshHead ==
    /\ phase = "Ingest"
    /\ ~cancelled
    /\ LET head == get_head_cursor(provider)
           pushed == push_tasks(task_queue, state.queued_block_number,
                                state.head.number)
       IN  IF state.head = head
           THEN /\ tick' = Tick("refresh_head", "unchanged")
                /\ UNCHANGED <<phase, state, task_queue>>
           ELSE IF head_is_shorter(state.head, head)
           THEN /\ phase' = "Recover"
                /\ tick' = Tick("refresh_head", "reorg_shorter")
                /\ UNCHANGED <<state, task_queue>>
           ELSE IF head_is_replaced(state.head, head)
           THEN /\ phase' = "Recover"
                /\ tick' = Tick("refresh_head", "reorg_same_height")
                /\ UNCHANGED <<state, task_queue>>
           ELSE /\ task_queue' = pushed.queue
                /\ state' = [state EXCEPT !.head = head,
                                          !.queued_block_number = pushed.block_number]
                /\ tick' = Tick("refresh_head", "updated")
                /\ UNCHANGED phase
    /\ UNCHANGED <<provider, exit, chain_builder, blocks, segments, recent,
                   kv, cancelled>>
    /\ UNCHANGED nonIngVars

segment_is_full_without_offset(builder) ==
    segment_size(builder) = chain_segment_size

\* `segment_size() == chain_segment_size + chain_segment_upload_offset_size`
segment_is_full(builder) ==
    segment_size(builder) = chain_segment_size + chain_segment_upload_offset_size

task_queue_next_unordered(queue) ==
    {i \in DOMAIN queue : queue[i].status # "running"}

\* FuturesOrdered::next: the tasks are yielded in the order they were pushed,
\* so only the oldest task can be yielded, and only once it has finished.
task_queue_next(queue) ==
    {i \in DOMAIN queue : i = 1 /\ queue[i].status # "running"}

should_upload_recent_segment_above(block_info, finalized) ==
    block_info.number > finalized.number

\* `block_info.number >= state.finalized.number`
should_upload_recent_segment(block_info, finalized) ==
    block_info.number >= finalized.number

should_recover_never(builder, block_info) == FALSE

\* `if !self.chain_builder.can_grow(&block_info)`
should_recover(builder, block_info) == ~can_grow(builder, block_info)

\* The queue once the task at position i has been yielded.
remove_task(queue, i) ==
    SubSeq(queue, 1, i - 1) \o SubSeq(queue, i + 1, Len(queue))

\* tick_ingest, branch task_queue.next(): the body run on the result of the
\* task at position i.
FinishTask(i) ==
    /\ IF task_queue[i].status = "failed"
       THEN /\ Returns("RpcRequest", "finish_ingestion", "failed")
            /\ task_queue' = remove_task(task_queue, i)
            /\ UNCHANGED <<state, chain_builder, segments, recent, kv>>
       ELSE LET block_info == Unwrap(task_queue[i].info)
                grown == grow(chain_builder, block_info)
                full == segment_is_full(grown)
                taken == take_segment(grown, chain_segment_size)
                builder == IF full THEN taken.builder ELSE grown
                upload == should_upload_recent_segment(block_info, state.finalized)
                              \/ full
                new_recent == put_recent(recent, current_segment(builder))
                pushed == push_tasks(remove_task(task_queue, i),
                                     state.queued_block_number, state.head.number)
            IN  IF should_recover(chain_builder, block_info)
                THEN /\ phase' = "Recover"
                     /\ tick' = Tick("finish_ingestion", "cannot_grow")
                     /\ task_queue' = remove_task(task_queue, i)
                     /\ UNCHANGED <<exit, state, chain_builder, segments,
                                    recent, kv>>
                ELSE /\ chain_builder' = builder
                     /\ segments' = IF full
                                    THEN segments \union {taken.segment}
                                    ELSE segments
                     /\ recent' = IF upload THEN Some(new_recent) ELSE recent
                     /\ kv' = IF upload
                              THEN [kv EXCEPT !.ingested = Some(new_recent.etag)]
                              ELSE kv
                     /\ task_queue' = pushed.queue
                     /\ state' = [state EXCEPT
                                     !.queued_block_number = pushed.block_number]
                     /\ tick' = Tick("finish_ingestion",
                                     IF full THEN "segment"
                                     ELSE IF upload THEN "recent" ELSE "grown")
                     /\ UNCHANGED <<phase, exit>>

\* tick_ingest, branch task_queue.next() ("finish_ingestion"), enabled while
\* the task queue is not empty: the next finished task is consumed.
FinishIngestion ==
    /\ phase = "Ingest"
    /\ ~cancelled
    /\ task_queue # <<>>
    /\ \E i \in task_queue_next(task_queue) : FinishTask(i)
    /\ UNCHANGED <<provider, blocks, cancelled>>
    /\ UNCHANGED nonIngVars

\* start, state IngestionState::Recover: recovery is not implemented, the
\* loop returns Err(IngestionError::Model).
Recover ==
    /\ phase = "Recover"
    /\ ~cancelled
    /\ Returns("Model", "recover", "not_implemented")
    /\ UNCHANGED <<provider, state, task_queue, chain_builder, blocks,
                   segments, recent, kv, cancelled>>
    /\ UNCHANGED nonIngVars

\* A spawned task runs ingest_block_by_number: it downloads the block the
\* provider has at that number and writes it with put_block; the download
\* fails when the provider has no such block. The task runs on the runtime,
\* whatever the loop does.
IngestBlockByNumber ==
    \E i \in DOMAIN task_queue :
        /\ task_queue[i].status = "running"
        /\ LET n == task_queue[i].number
               block_info == ProviderBlock(provider, n)
           IN  IF n <= provider.head
               THEN /\ task_queue' = [task_queue EXCEPT
                                         ![i].status = "done",
                                         ![i].info = Some(block_info)]
                    /\ blocks' = blocks \union {cursor(block_info)}
               ELSE /\ task_queue' = [task_queue EXCEPT ![i].status = "failed"]
                    /\ UNCHANGED blocks
        /\ UNCHANGED <<provider, phase, exit, state, chain_builder, segments,
                       recent, kv, cancelled, tick>>
        /\ UNCHANGED nonIngVars

\* -------------------------------------------------------------- environment
\* The provider's chain gets a new head block.
ProviderHeadAdvance ==
    /\ phase = "Ingest"
    /\ provider.head < MaxBlock
    /\ provider' = [provider EXCEPT !.head = provider.head + 1]
    /\ UNCHANGED <<phase, exit, state, task_queue, chain_builder, blocks,
                   segments, recent, kv, cancelled, tick>>
    /\ UNCHANGED nonIngVars

\* The provider finalizes one more block.
ProviderFinalizedAdvance ==
    /\ phase = "Ingest"
    /\ provider.finalized < provider.head
    /\ provider.finalized < MaxFinalized
    /\ provider' = [provider EXCEPT !.finalized = provider.finalized + 1]
    /\ UNCHANGED <<phase, exit, state, task_queue, chain_builder, blocks,
                   segments, recent, kv, cancelled, tick>>
    /\ UNCHANGED nonIngVars

\* A provider that reports an older finalized block than before.
ProviderFinalizedRegress ==
    /\ phase = "Ingest"
    /\ provider.finalized > 0
    /\ provider' = [provider EXCEPT !.finalized = provider.finalized - 1]
    /\ UNCHANGED <<phase, exit, state, task_queue, chain_builder, blocks,
                   segments, recent, kv, cancelled, tick>>
    /\ UNCHANGED nonIngVars

\* A reorganization: the blocks from number f on are replaced, and the new
\* chain ends at h.
ProviderReorg ==
    /\ phase = "Ingest"
    /\ provider.fork = NoFork
    /\ \E f \in 1 .. provider.head :
       \E h \in f .. provider.head :
            /\ provider.finalized <= h
            /\ provider' = [provider EXCEPT !.fork = f, !.head = h]
    /\ UNCHANGED <<phase, exit, state, task_queue, chain_builder, blocks,
                   segments, recent, kv, cancelled, tick>>
    /\ UNCHANGED nonIngVars

\* The cancellation token is cancelled.
Cancel ==
    /\ phase \in {"Ingest", "Recover"}
    /\ ~cancelled
    /\ cancelled' = TRUE
    /\ UNCHANGED <<provider, phase, exit, state, task_queue, chain_builder,
                   blocks, segments, recent, kv, tick>>
    /\ UNCHANGED nonIngVars

\* The loop of start and what happens around it once initialize is done.
IngLoop ==
    \/ LoopCancelled
    \/ KeepAliveFailed
    \/ TickCancelled
    \/ RefreshFinalized
    \/ RefreshHead
    \/ FinishIngestion
    \/ Recover
    \/ IngestBlockByNumber
    \/ ProviderHeadAdvance
    \/ ProviderFinalizedAdvance
    \/ ProviderFinalizedRegress
    \/ ProviderReorg
    \/ Cancel

IngNext ==
    \/ Initialize
    \/ IngLoop

IngSpec == IngInit /\ [][IngNext]_vars

\* ------------------------------------------------------------------ claims
\* What the service persists: the IngestionState record, the recent segment,
\* the immutable chain segments and the block artifacts.
Persistent == <<kv, recent, segments, blocks>>

\* C13: on a finalized tick, a provider finalized number lower than
\* S.finalized.number stops the service with a Model error and leaves the
\* persisted finalized number alone; an unchanged finalized cursor changes and
\* writes nothing; otherwise S.finalized and the persisted finalized number
\* take the new value while head, queued_block_number, the task queue and the
\* chain builder stay as they were.
C13_FinalizedTick ==
    [][RefreshFinalized =>
        LET new == get_finalized_cursor(provider)
        IN  /\ new.number < state.finalized.number =>
                   /\ phase' = "Stopped"
                   /\ exit' = "Model"
                   /\ kv'.finalized = kv.finalized
            /\ new = state.finalized =>
                   /\ UNCHANGED <<phase, exit, state, task_queue, chain_builder>>
                   /\ UNCHANGED Persistent
            /\ (new.number >= state.finalized.number /\ new # state.finalized) =>
                   /\ state'.finalized = new
                   /\ kv'.finalized = Some(new.number)
                   /\ state'.head = state.head
                   /\ state'.queued_block_number = state.queued_block_number
                   /\ UNCHANGED <<task_queue, chain_builder>>]_vars

\* The provider went from a finalized block to an older one and the tick
\* stopped the service.
C13_Witness ==
    /\ tick = Tick("refresh_finalized", "behind")
    /\ exit = "Model"
    /\ provider.finalized < state.finalized.number
    /\ kv.finalized = Some(state.finalized.number)

\* C14: on a head tick, a provider head with a lower number than S.head, or
\* with the same number and another hash, moves the state machine to Recover
\* without pushing a download task and without touching the chain builder or
\* anything persisted; an identical head cursor makes the tick a no-op.
C14_HeadTickReorg ==
    [][RefreshHead =>
        LET new == get_head_cursor(provider)
        IN  /\ (\/ new.number < state.head.number
                \/ (new.number = state.head.number /\ new.hash # state.head.hash)) =>
                   /\ phase' = "Recover"
                   /\ UNCHANGED <<task_queue, chain_builder>>
                   /\ UNCHANGED Persistent
            /\ new = state.head =>
                   /\ UNCHANGED <<phase, exit, state, task_queue, chain_builder>>
                   /\ UNCHANGED Persistent]_vars

\* The provider replaced the head block by another block at the same height
\* while tasks were queued, and the head tick moved to Recover.
C14_Witness ==
    /\ tick = Tick("refresh_head", "reorg_same_height")
    /\ phase = "Recover"
    /\ task_queue # <<>>
    /\ get_head_cursor(provider).number = state.head.number
    /\ get_head_cursor(provider).hash # state.head.hash

\* The scheduling of the service: the loop of start keeps running, the
\* refresh intervals keep firing, a finished task is consumed and a spawned
\* task runs to its end. Nothing is assumed of the provider, of the
\* cancellation token or of the lease.
IngFairness ==
    /\ WF_vars(Initialize)
    /\ WF_vars(LoopCancelled)
    /\ WF_vars(TickCancelled)
    /\ WF_vars(RefreshFinalized)
    /\ WF_vars(RefreshHead)
    /\ WF_vars(FinishIngestion)
    /\ WF_vars(Recover)
    /\ WF_vars(IngestBlockByNumber)

IngFairSpec == IngSpec /\ IngFairness

\* C15: a state machine in Recover goes on to Ingest again (after truncating
\* the chain builder to the common ancestor and emitting the invalidation):
\* it leaves Recover only for Ingest, unless the service was cancelled or
\* lost its lease.
C15_RecoverReentersIngest ==
    [][(phase = "Recover" /\ phase' # "Recover") =>
        (phase' = "Ingest" \/ exit' \in {"Ok", "LockKeepAlive"})]_vars

\* Every block from the starting block to h is stored and grown into the
\* canonical chain.
IngestedUpTo(h) ==
    /\ kv.starting_block # {}
    /\ chain_builder # <<>>
    /\ Last(chain_builder).number >= h
    /\ \A n \in Unwrap(kv.starting_block) .. h :
           \E c \in blocks : c.number = n

\* C16: on a fresh start in front of a provider whose head and finalized
\* block stay what they were, with no error, no reorganization and no
\* cancellation, every block from the starting block to the head is
\* eventually downloaded, stored and grown into the canonical chain.
C16_IngestionLiveness ==
    \A p \in {[head |-> h, finalized |-> f, fork |-> NoFork] :
                 h \in BlockNumbers, f \in 0 .. MaxFinalized} :
        <>(\/ provider # p
           \/ cancelled
           \/ exit # "Running"
           \/ IngestedUpTo(p.head))

\* The block numbers of a sequence of blocks, in order.
NumbersOf(seq) == [i \in DOMAIN seq |-> seq[i].number]

\* The numbers from, from + 1, .. to, in order.
Run(from, to) == [i \in 1 .. (to - from + 1) |-> from + i - 1]

\* C17: once blocks start..N have been grown in order, with segment size s
\* and upload offset o, the immutable chain segments written are exactly the
\* runs [start + k*s, start + k*s + s - 1] for every k >= 0 with
\* start + (k+1)*s + o - 1 <= N, and the chain builder holds exactly the
\* blocks after the last of them up to N, at least one; so a cut is made
\* exactly when the builder holds s + o blocks and takes its first s blocks.
C17_SegmentCuts ==
    (blocks # {}) =>
        LET start == Unwrap(kv.starting_block)
            N == Last(chain_builder).number
            s == chain_segment_size
            o == chain_segment_upload_offset_size
            cuts == {k \in 0 .. MaxBlock : start + (k + 1) * s + o - 1 <= N}
        IN  /\ chain_builder # <<>>
            /\ {NumbersOf(segment) : segment \in segments} =
                   {Run(start + k * s, start + k * s + s - 1) : k \in cuts}
            /\ Cardinality(segments) = Cardinality(cuts)
            /\ NumbersOf(chain_builder) =
                   Run(start + Cardinality(cuts) * s, N)

\* Two segments were cut and the builder holds the blocks after them.
C17_Witness ==
    /\ Cardinality(segments) >= 2
    /\ chain_builder # <<>>
    /\ tick = Tick("finish_ingestion", "segment")

\* C18: in every reachable state the task queue holds at most
\* max_concurrent_tasks download tasks, however far the head is from
\* queued_block_number.
C18_TaskQueueBounded == Len(task_queue) <= max_concurrent_tasks

\* The queue is full while blocks up to the head are still to be queued.
C18_Witness ==
    /\ phase = "Ingest"
    /\ Len(task_queue) = max_concurrent_tasks
    /\ state.queued_block_number < state.head.number

\* The block numbers of the tasks of a queue.
QueuedNumbers(queue) == {queue[i].number : i \in DOMAIN queue}

\* C19: whatever the order in which the download tasks finish, their results
\* are consumed in the order the tasks were pushed: the block handed to
\* can_grow is the one right after the tip of the chain and no task of the
\* queue has a smaller number, and while the service ingests the task queue
\* holds exactly the numbers from the last consumed one plus one to
\* queued_block_number, oldest first.
C19_ConsumedInOrder ==
    [][/\ FinishIngestion =>
              \A n \in QueuedNumbers(task_queue) \ QueuedNumbers(task_queue') :
                  /\ n = Last(chain_builder).number + 1
                  /\ \A m \in QueuedNumbers(task_queue) : n <= m
       /\ phase' = "Ingest" =>
              NumbersOf(task_queue') =
                  Run(Last(chain_builder').number + 1,
                      state'.queued_block_number)]_vars

\* After a block was consumed, a later task of the queue has finished before
\* the oldest one and waits behind it.
C19_Witness ==
    /\ phase = "Ingest"
    /\ tick.action = "finish_ingestion"
    /\ Len(task_queue) >= 2
    /\ task_queue[1].status = "running"
    /\ task_queue[2].status = "done"
    /\ task_queue[1].number = Last(chain_builder).number + 1

\* C20: every tick follows a successful refresh of the lease; once a refresh
\* has failed the loop has stopped with LockKeepAlive and nothing more is
\* written to the IngestionState record, the recent segment, the immutable
\* chain segments or the block artifacts, not even by a download task that
\* was in flight.
C20_NoWriteAfterLeaseLoss ==
    [][exit = "LockKeepAlive" =>
        (exit' = "LockKeepAlive" /\ UNCHANGED Persistent)]_vars

\* =================================================================
\* SegmentService (src/common/src/compaction/segment.rs)
\* =================================================================

\* ------------------------------------------------------------------ bounds
\* MAX_BUFFERED_BLOCKS, 128 in the source, scaled down with the segment sizes.
MAX_BUFFERED_BLOCKS == 2
\* Largest segment_size a service is built with.
MaxSegmentSize == 3
\* Largest block number the chain view reports as head or finalized.
MaxViewBlock == 4
\* Number of named artifacts segment_data yields for one segment.
NumArtifacts == 2

SegmentSizes == 1 .. MaxSegmentSize
ViewBlocks == 0 .. MaxViewBlock
ArtifactNames == 1 .. NumArtifacts

\* u64::min and usize::min
Min(a, b) == IF a <= b THEN a ELSE b

\* --------------------------------------------------------------- chain view
\* ChainView::get_next_cursor: Continue with the next block while there is
\* one below or at the head, None (AtHead) otherwise.
get_next_cursor(view, number) ==
    IF number + 1 <= view.head THEN Some(number + 1) ELSE {}

\* Every segment starts at the starting cursor.
first_block_of_next_segment_restart(view) == Some(view.starting)

\* The cursor start resolves for the next segment: the successor of the
\* segmented cursor, or the starting cursor; None when the chain view does not
\* return NextCursor::Continue.
first_block_of_next_segment(view) ==
    IF view.segmented # {}
    THEN get_next_cursor(view, Unwrap(view.segmented))
    ELSE Some(view.starting)

\* The head alone, whatever the finalized block is.
latest_available_head(view) == view.head

\* `u64::min(finalized.number, head.number)`
latest_available(view) == Min(view.finalized, view.head)

\* `first_block_in_segment.number + self.segment_size <= latest_available`
can_compact(view, first_block, size) ==
    first_block + size <= latest_available(view)

\* -------------------------------------------------------------- block store
\* What get_block_and_cursor may yield for the block at `number`: that block,
\* a block out of place by one, or an error when the block is missing.
Returned(number) ==
    {[ok |-> TRUE, number |-> n] :
        n \in {m \in {number - 1, number, number + 1} : m >= 0}}
    \union {[ok |-> FALSE, number |-> number]}

\* The results of the pipeline for a segment, in the order the downloads were
\* pushed: one per block from first_block on.
Pipelines(first_block, size) ==
    {q \in [1 .. size ->
               UNION {Returned(first_block + i - 1) : i \in 1 .. size}] :
        \A i \in 1 .. size : q[i] \in Returned(first_block + i - 1)}

\* An object is immutable once written and its key encodes the block number:
\* a read that succeeds yields the block of the cursor it was asked for.
ReturnedIntact(number) ==
    {r \in Returned(number) : r.ok => r.number = number}

PipelinesIntact(first_block, size) ==
    {q \in Pipelines(first_block, size) :
        \A i \in 1 .. size : q[i] \in ReturnedIntact(first_block + i - 1)}

\* ----------------------------------------------------------- SegmentBuilder
\* add_block appends the block; block_count counts the blocks added.
add_block(builder, number) == Append(builder, number)
block_count(builder) == Len(builder)

\* ---------------------------------------------------------- compact_segment
\* A queue as large as the segment.
buffered_queue_size_whole(size) == size

\* `usize::min(self.segment_size, MAX_BUFFERED_BLOCKS)`
buffered_queue_size(size) == Min(size, MAX_BUFFERED_BLOCKS)

\* The check of the last loop of compact_segment: the block is not the first
\* block of the segment and its number is not the last number plus one.
number_does_not_match(first_block, last_block, number) ==
    number # first_block /\ number # last_block + 1

\* The two loops of compact_segment that take the results of the pipeline in
\* order. While the queue is refilled (the first size - buffered_queue_size
\* results) a block is added to the builder and becomes the last block; the
\* results taken by the last loop are added and then checked against the last
\* block. A download that failed ends the compaction at once.
RECURSIVE take_blocks(_, _, _, _, _, _)
take_blocks(first_block, size, pipeline, i, builder, last_block) ==
    IF i > size
    THEN [status |-> "Ok", builder |-> builder, last_block |-> last_block]
    ELSE IF ~pipeline[i].ok
    THEN [status |-> "CompactionError", builder |-> builder,
          last_block |-> last_block]
    ELSE LET number == pipeline[i].number
             added == add_block(builder, number)
         IN  IF /\ i > size - buffered_queue_size(size)
                /\ number_does_not_match(first_block, last_block, number)
             THEN [status |-> "CompactionError", builder |-> added,
                   last_block |-> last_block]
             ELSE take_blocks(first_block, size, pipeline, i + 1, added, number)

\* compact_segment up to the sanity check of the block count: the downloads
\* are pushed along the cursors of the chain view (an error when it has no
\* next cursor), their results are taken in order, and the builder must hold
\* segment_size blocks.
compact_blocks(view, first_block, size, pipeline) ==
    LET taken == take_blocks(first_block, size, pipeline, 1, <<>>, first_block)
    IN  IF \E i \in 1 .. size : get_next_cursor(view, first_block + i - 1) = {}
        THEN [taken EXCEPT !.status = "CompactionError"]
        ELSE IF taken.status = "Ok" /\ block_count(taken.builder) # size
        THEN [taken EXCEPT !.status = "CompactionError"]
        ELSE taken

Compaction(pc, size, first_block, last_block, builder, pending, outcome) ==
    [pc |-> pc, segment_size |-> size,
     first_block_in_segment |-> first_block,
     last_block_in_segment |-> last_block,
     builder |-> builder, pending |-> pending, outcome |-> outcome]

\* SegmentService::start returns an error.
SegFails(outcome) ==
    /\ compaction' = [compaction EXCEPT !.pc = "stopped", !.outcome = outcome]
    /\ seg_exit' = "CompactionError"

\* A SegmentService with some segment size starts on a chain view with some
\* head and finalized block and nothing segmented.
SegInit ==
    /\ SeqIdle
    /\ IngIdle
    /\ FltIdle
    /\ SelIdle
    /\ PipIdle
    /\ BcIdle
    /\ chain_view \in {[head |-> h, finalized |-> f, starting |-> 0,
                        segmented |-> {}] : h \in ViewBlocks, f \in ViewBlocks}
    /\ chain_view.finalized <= chain_view.head
    /\ segment_store = {}
    /\ \E size \in SegmentSizes :
           compaction = Compaction("loop", size, 0, 0, <<>>, <<>>, "none")
    /\ seg_exit = "Running"

\* The loop waits for a head change, whatever the finalized block is.
state_change_head(seen) == "head_changed"

\* `let state_change = if finalized.number < head.number { finalized_changed }
\* else { head_changed }`
state_change(seen) ==
    IF seen.finalized < seen.head THEN "finalized_changed" ELSE "head_changed"

\* start, one iteration that does not compact: the first block of the next
\* segment is resolved (an error when the chain view has no next cursor) and,
\* as too few blocks are available, the loop waits for a change of the
\* finalized block or of the head.
SegWait ==
    /\ compaction.pc = "loop"
    /\ LET first == first_block_of_next_segment(chain_view)
       IN  IF first = {}
           THEN SegFails("invalid_cursor")
           ELSE /\ ~can_compact(chain_view, Unwrap(first), compaction.segment_size)
                /\ compaction' = [compaction EXCEPT
                       !.pc = "waiting",
                       !.first_block_in_segment = Unwrap(first),
                       !.outcome = state_change(chain_view)]
                /\ UNCHANGED seg_exit
    /\ UNCHANGED <<chain_view, segment_store>>
    /\ UNCHANGED nonSegVars

\* start, one iteration that compacts: compact_segment downloads the blocks
\* of the segment and fills the builder; any error makes start return.
SegCompactOf(Downloads(_, _), at, seen) ==
    /\ compaction.pc = at
    /\ first_block_of_next_segment(seen) # {}
    /\ LET first == Unwrap(first_block_of_next_segment(seen))
           size == compaction.segment_size
       IN  /\ can_compact(seen, first, size)
           /\ \E pipeline \in Downloads(first, size) :
                  LET r == compact_blocks(chain_view, first, size, pipeline)
                  IN  IF r.status = "Ok"
                      THEN /\ compaction' =
                                  Compaction("upload", size, first, r.last_block,
                                             r.builder,
                                             [i \in ArtifactNames |-> i],
                                             "compacted")
                           /\ UNCHANGED seg_exit
                      ELSE /\ compaction' =
                                  Compaction("stopped", size, first, r.last_block,
                                             r.builder, <<>>, "compaction_failed")
                           /\ seg_exit' = "CompactionError"
    /\ UNCHANGED <<chain_view, segment_store>>
    /\ UNCHANGED nonSegVars

\* The block store may return a block out of place.
SegCompact == SegCompactOf(Pipelines, "loop", chain_view)

\* The block store keeps its contract: a download returns the block of the
\* cursor it was asked for, or an error.
SegCompactIntact == SegCompactOf(PipelinesIntact, "loop", chain_view)

\* compact_segment, the loop `for segment in segment_data`: put_segment of
\* the next artifact, which may fail.
SegPutSegment ==
    /\ compaction.pc = "upload"
    /\ compaction.pending # <<>>
    /\ \/ /\ segment_store' = segment_store \union
                  {<<compaction.first_block_in_segment, Head(compaction.pending)>>}
          /\ compaction' = [compaction EXCEPT !.pending = Tail(compaction.pending)]
          /\ UNCHANGED seg_exit
       \/ /\ SegFails("put_segment_failed")
          /\ UNCHANGED segment_store
    /\ UNCHANGED chain_view
    /\ UNCHANGED nonSegVars

\* compact_segment, state_client.put_segmented(last_block_in_segment.number),
\* which may fail; then the loop of start goes on.
SegPutSegmented ==
    /\ compaction.pc = "upload"
    /\ compaction.pending = <<>>
    /\ \/ /\ chain_view' = [chain_view EXCEPT
                  !.segmented = Some(compaction.last_block_in_segment)]
          /\ compaction' = [compaction EXCEPT !.pc = "loop",
                                              !.outcome = "segmented"]
          /\ UNCHANGED seg_exit
       \/ /\ SegFails("put_segmented_failed")
          /\ UNCHANGED chain_view
    /\ UNCHANGED segment_store
    /\ UNCHANGED nonSegVars

\* The cancellation token is cancelled: start returns Ok at the top of the
\* loop or out of the wait.
SegCancel ==
    /\ compaction.pc \in {"loop", "waiting"}
    /\ compaction' = [compaction EXCEPT !.pc = "stopped", !.outcome = "cancelled"]
    /\ seg_exit' = "Ok"
    /\ UNCHANGED <<chain_view, segment_store>>
    /\ UNCHANGED nonSegVars

\* Ingestion moves the head of the chain view; a loop waiting for a head
\* change goes on.
ViewHeadChanged ==
    /\ compaction.pc # "stopped"
    /\ chain_view.head < MaxViewBlock
    /\ chain_view' = [chain_view EXCEPT !.head = chain_view.head + 1]
    /\ compaction' =
           IF compaction.pc = "waiting" /\ compaction.outcome = "head_changed"
           THEN [compaction EXCEPT !.pc = "loop"]
           ELSE compaction
    /\ UNCHANGED <<segment_store, seg_exit>>
    /\ UNCHANGED nonSegVars

\* Ingestion moves the finalized block of the chain view; a loop waiting for
\* a finalized change goes on.
ViewFinalizedChanged ==
    /\ compaction.pc # "stopped"
    /\ chain_view.finalized < chain_view.head
    /\ chain_view' = [chain_view EXCEPT !.finalized = chain_view.finalized + 1]
    /\ compaction' =
           IF compaction.pc = "waiting" /\ compaction.outcome = "finalized_changed"
           THEN [compaction EXCEPT !.pc = "loop"]
           ELSE compaction
    /\ UNCHANGED <<segment_store, seg_exit>>
    /\ UNCHANGED nonSegVars

SegNext ==
    \/ SegWait
    \/ SegCompact
    \/ SegPutSegment
    \/ SegPutSegmented
    \/ SegCancel
    \/ ViewHeadChanged
    \/ ViewFinalizedChanged

SegSpec == SegInit /\ [][SegNext]_vars

\* The SegmentService over a block store that keeps its contract.
SegIntactNext ==
    \/ SegWait
    \/ SegCompactIntact
    \/ SegPutSegment
    \/ SegPutSegmented
    \/ SegCancel
    \/ ViewHeadChanged
    \/ ViewFinalizedChanged

SegIntactSpec == SegInit /\ [][SegIntactNext]_vars

\* C21: in compact_segment, for every segment size, the blocks appended to
\* the segment builder of an accepted compaction have the numbers
\* first_block_in_segment, first_block_in_segment + 1, ... in order; a
\* compaction that fails on a block uploads no artifact of that segment and
\* leaves the segmented cursor alone.
C21_ContiguousBlocks ==
    /\ compaction.pc = "upload" =>
           compaction.builder =
               Run(compaction.first_block_in_segment,
                   compaction.first_block_in_segment + compaction.segment_size - 1)
    /\ compaction.outcome = "compaction_failed" =>
           /\ \A name \in ArtifactNames :
                  <<compaction.first_block_in_segment, name>> \notin segment_store
           /\ chain_view.segmented # Some(compaction.last_block_in_segment)

\* C22: when a step of a compaction fails (block download, next cursor,
\* builder check, artifact upload, state update), the service keeps running
\* and goes back to the top of its loop, and no artifact of the failed
\* segment is stored.
C22_FailedTickRetries ==
    compaction.outcome \in {"invalid_cursor", "compaction_failed",
                            "put_segment_failed", "put_segmented_failed"} =>
        /\ seg_exit = "Running"
        /\ compaction.pc = "loop"
        /\ \A name \in ArtifactNames :
               <<compaction.first_block_in_segment, name>> \notin segment_store

\* ------------------------------------------------------------------------
\* BlockFilterFactory::create_block_filter
\* (src/evm/src/filter/mod.rs, src/starknet/src/filter/mod.rs,
\*  src/beaconchain/src/filter/mod.rs)
\* ------------------------------------------------------------------------

MaxFilters == 6

\* The most filters a request may carry.
max_filters == 5

Factories == {"evm", "starknet", "beaconchain"}

\* What the bytes of one filter are: bytes that do not decode, a filter that
\* decodes and does not compile, a filter that compiles to a block filter
\* that cannot produce data, one that compiles to a block filter that can.
FilterBytes == {"undecodable", "uncompilable", "empty", "data"}

RECURSIVE SeqsUpTo(_, _)
SeqsUpTo(S, n) ==
    IF n = 0 THEN {<<>>}
    ELSE LET shorter == SeqsUpTo(S, n - 1)
         IN  shorter \union {Append(q, x) : q \in {r \in shorter : Len(r) = n - 1}, x \in S}

Requests == [factory : Factories, filters : SeqsUpTo(FilterBytes, MaxFilters)]

\* Filter::decode of the bytes.
decode(bytes) == IF bytes = "undecodable" THEN {} ELSE Some(bytes)

\* BlockFilterExt::compile_to_block_filter of a decoded filter; an error is
\* an invalid_argument status.
compile_to_block_filter(filter) == IF filter = "uncompilable" THEN {} ELSE Some(filter)

\* BlockFilter::can_produce_data of a compiled filter.
can_produce_data(filter) == filter = "data"

invalid_argument(message) == [code |-> "InvalidArgument", message |-> message]

too_many_filters_six(n) == n > max_filters + 1

too_many_filters(n) == n > max_filters

\* create_block_filter, the same in the three factories.
create_block_filter(filters) ==
    IF \E i \in DOMAIN filters : decode(filters[i]) = {}
    THEN invalid_argument("failed to decode filter")
    ELSE IF Len(filters) = 0
    THEN invalid_argument("no filters provided")
    ELSE IF too_many_filters(Len(filters))
    THEN invalid_argument("too many filters")
    ELSE IF \E i \in DOMAIN filters : compile_to_block_filter(filters[i]) = {}
    THEN invalid_argument("invalid filter")
    ELSE IF \E i \in DOMAIN filters : can_produce_data(filters[i])
    THEN [code |-> "Ok", message |-> "filters"]
    ELSE invalid_argument("at least one filter must be non-empty")

\* Some request reaches some factory.
FltInit ==
    /\ SeqIdle
    /\ IngIdle
    /\ SegIdle
    /\ SelIdle
    /\ PipIdle
    /\ BcIdle
    /\ request \in Requests
    /\ response = [code |-> "none", message |-> "none"]

\* The factory answers the request.
CreateBlockFilter ==
    /\ response.code = "none"
    /\ response' = create_block_filter(request.filters)
    /\ UNCHANGED request
    /\ UNCHANGED nonFltVars

FltNext == CreateBlockFilter

FltSpec == FltInit /\ [][FltNext]_vars

\* C23: create_block_filter accepts a request iff every filter decodes, there
\* are between one and five filters, every filter compiles and some compiled
\* filter can produce data; every other request gets InvalidArgument.
C23_FilterAccepted ==
    response.code # "none" =>
        LET filters == request.filters
            acceptable ==
                /\ \A i \in DOMAIN filters : filters[i] # "undecodable"
                /\ Len(filters) >= 1
                /\ Len(filters) <= max_filters
                /\ \A i \in DOMAIN filters : filters[i] # "uncompilable"
                /\ \E i \in DOMAIN filters : filters[i] = "data"
        IN  /\ response.code = "Ok" <=> acceptable
            /\ ~acceptable => response.code = "InvalidArgument"

\* A request with more than five filters that all compile and can produce
\* data was rejected.
C23_Witness ==
    /\ response.code = "InvalidArgument"
    /\ Len(request.filters) > max_filters
    /\ \A i \in DOMAIN request.filters : request.filters[i] = "data"

\* ------------------------------------------------------------------------
\* IngestionService started on stores an earlier run has written
\* (initialize, IngestionStartAction::Resume)
\* ------------------------------------------------------------------------

\* The numbers the last block of the stored recent segment may have: the
\* earlier run started at block 0 and stopped before it cut a segment.
StoredTips == 1 .. (chain_segment_size + chain_segment_upload_offset_size - 2)

\* The blocks 0 .. n of the chain as it was before any reorganization.
StoredChain(n) ==
    [i \in 1 .. n + 1 |->
        ProviderBlock([head |-> n, finalized |-> 0, fork |-> NoFork], i - 1)]

\* CanonicalChainBuilder::restore_from_segment
restore_from_segment(segment) == segment

\* What the earlier run left after it grew the blocks 0 .. n and uploaded
\* the recent segment with each of them.
Stored(n) ==
    /\ recent = Some([segment |-> StoredChain(n), etag |-> n])
    /\ kv = [finalized |-> Some(0), starting_block |-> Some(0),
             ingested |-> Some(n)]
    /\ blocks = {cursor(StoredChain(n)[i]) : i \in 1 .. n + 1}
    /\ segments = {}

\* A new service on the stores of an earlier run; since then the provider
\* may have moved its head, and may have replaced the blocks from some
\* number on.
IngResumeInit ==
    /\ SeqIdle
    /\ SegIdle
    /\ FltIdle
    /\ SelIdle
    /\ PipIdle
    /\ BcIdle
    /\ provider \in {[head |-> h, finalized |-> f, fork |-> k] :
                        h \in BlockNumbers, f \in 0 .. MaxFinalized,
                        k \in (1 .. MaxBlock) \union {NoFork}}
    /\ provider.finalized <= provider.head
    /\ provider.finalized < provider.fork
    /\ provider.fork <= provider.head \/ provider.fork = NoFork
    /\ \E n \in StoredTips : Stored(n)
    /\ phase = "New"
    /\ exit = "Running"
    /\ state = [head |-> [number |-> 0, hash |-> 0],
                finalized |-> [number |-> 0, hash |-> 0],
                queued_block_number |-> 0]
    /\ task_queue = <<>>
    /\ chain_builder = <<>>
    /\ cancelled = FALSE
    /\ tick = Tick("new", "none")

offline_reorg_never(last_block, block_info) == FALSE

\* `info.last_block != block_info.cursor()`
offline_reorg(last_block, block_info) == last_block # cursor(block_info)

\* initialize, on stores with a recent segment: put_finalized, then
\* get_starting_cursor restores the chain builder from the segment and
\* compares its last block with the block the provider has at that number;
\* a different cursor is an offline reorg and initialize fails.
InitializeResume ==
    /\ phase = "New"
    /\ recent # {}
    /\ LET head == get_head_cursor(provider)
           finalized == get_finalized_cursor(provider)
           restored == restore_from_segment(Unwrap(recent).segment)
           last_block == cursor(Last(restored))
           block_info == ProviderBlock(provider, last_block.number)
       IN  /\ kv' = [kv EXCEPT !.finalized = Some(finalized.number)]
           /\ chain_builder' = restored
           /\ IF last_block.number > provider.head
              THEN /\ Returns("RpcRequest", "initialize", "failed")
                   /\ UNCHANGED state
              ELSE IF offline_reorg(last_block, block_info)
              THEN /\ Returns("Model", "initialize", "offline_reorg")
                   /\ UNCHANGED state
              ELSE /\ state' = IngestState(cursor(block_info), finalized, head)
                   /\ phase' = "Ingest"
                   /\ tick' = Tick("initialize", "resume")
                   /\ UNCHANGED exit
    /\ UNCHANGED <<provider, task_queue, blocks, segments, recent, cancelled>>
    /\ UNCHANGED nonIngVars

IngResumeNext ==
    \/ InitializeResume
    \/ IngLoop

IngResumeSpec == IngResumeInit /\ [][IngResumeNext]_vars

\* The last block of the stored recent segment, and whether the provider has
\* another block at its number.
StoredLastBlock == cursor(Last(Unwrap(recent).segment))

ProviderReplacedStoredBlock ==
    /\ recent # {}
    /\ StoredLastBlock.number <= provider.head
    /\ StoredLastBlock # cursor(ProviderBlock(provider, StoredLastBlock.number))

\* C24: when initialize restores a recent segment whose last block is not
\* the block the provider has at that number, initialize fails: the service
\* stops without entering Ingest, pushes no download task, and writes
\* neither starting_block nor the recent segment nor a chain segment; once
\* it has failed so, it stays stopped.
C24_OfflineReorgFails ==
    [][/\ (phase = "New" /\ ProviderReplacedStoredBlock) =>
              /\ phase' = "Stopped"
              /\ exit' = "Model"
              /\ task_queue' = <<>>
              /\ kv'.starting_block = kv.starting_block
              /\ recent' = recent
              /\ segments' = segments
       /\ tick.outcome = "offline_reorg" =>
              /\ phase' = "Stopped"
              /\ task_queue' = <<>>
              /\ kv'.starting_block = kv.starting_block
              /\ recent' = recent
              /\ segments' = segments]_vars

\* initialize has failed on an offline reorg.
C24_Witness ==
    /\ tick = Tick("initialize", "offline_reorg")
    /\ phase = "Stopped"
    /\ exit = "Model"
    /\ ProviderReplacedStoredBlock

\* A valid chain: each block is numbered one more than the block before it
\* and names it as its parent.
ValidChain(builder) ==
    \A i \in 2 .. Len(builder) :
        /\ builder[i].number = builder[i - 1].number + 1
        /\ parent_cursor(builder[i]) = cursor(builder[i - 1])

\* C25: the chain builder of IngestionService always holds a valid chain; a
\* block is grown onto a non-empty builder only when its parent is the tip
\* and its number is the tip's plus one; and when a segment is taken, the
\* first block left in the builder has the last block of that segment as
\* its parent.
C25_BuilderHoldsValidChain ==
    [][/\ ValidChain(chain_builder')
       /\ (chain_builder' # chain_builder /\ chain_builder # <<>>) =>
              /\ chain_builder' # <<>>
              /\ parent_cursor(Last(chain_builder')) = cursor(Last(chain_builder))
              /\ Last(chain_builder').number = Last(chain_builder).number + 1
       /\ segments' # segments =>
              /\ chain_builder' # <<>>
              /\ \E segment \in segments' \ segments :
                     /\ ValidChain(segment)
                     /\ parent_cursor(Head(chain_builder')) = cursor(Last(segment))]_vars

\* A segment was taken and the builder holds the blocks after it.
C25_Witness ==
    /\ tick = Tick("finish_ingestion", "segment")
    /\ segments # {}
    /\ chain_builder # <<>>
    /\ \E segment \in segments :
           parent_cursor(Head(chain_builder)) = cursor(Last(segment))

\* C26: a head tick that finds the provider's head ahead of S.head makes it
\* S.head and pushes download tasks for the blocks after
\* queued_block_number up to the new head or until the task queue is full:
\* afterwards queued_block_number is the smaller of the new head's number
\* and the old queued_block_number plus the free places of the queue.
C26_HeadTickPushesToNewHead ==
    [][RefreshHead =>
        LET new == get_head_cursor(provider)
            free == max_concurrent_tasks - Len(task_queue)
        IN  new.number > state.head.number =>
                /\ state'.head = new
                /\ state'.queued_block_number =
                       Min(new.number, state.queued_block_number + free)
                /\ Len(task_queue') =
                       Len(task_queue) +
                       (state'.queued_block_number - state.queued_block_number)]_vars

\* The block of the finished task at the head of the queue is not the child
\* of the tip of the chain builder.
NextBlockDoesNotLink ==
    /\ task_queue # <<>>
    /\ task_queue[1].status = "done"
    /\ chain_builder # <<>>
    /\ LET block_info == Unwrap(task_queue[1].info)
       IN  \/ parent_cursor(block_info) # cursor(Last(chain_builder))
           \/ block_info.number # Last(chain_builder).number + 1

\* C27: when a finished download yields a block the chain builder cannot
\* grow by, the tick moves to Recover, leaves the chain builder, the chain
\* segments, the recent segment and ingested_etag as they are, and pushes no
\* download task.
C27_CannotGrowRecovers ==
    [][(FinishIngestion /\ NextBlockDoesNotLink) =>
            /\ phase' = "Recover"
            /\ UNCHANGED <<chain_builder, segments, recent>>
            /\ kv'.ingested = kv.ingested
            /\ task_queue' = Tail(task_queue)
            /\ state'.queued_block_number = state.queued_block_number]_vars

\* A block downloaded after a reorganization was refused and the state
\* machine is in Recover, with blocks ingested before.
C27_Witness ==
    /\ tick = Tick("finish_ingestion", "cannot_grow")
    /\ phase = "Recover"
    /\ recent # {}
    /\ Len(chain_builder) >= 2

\* A new service in front of a provider most of whose chain is finalized.
IngFinalizedInit ==
    /\ SeqIdle
    /\ provider \in {[head |-> h, finalized |-> f, fork |-> NoFork] :
                        h \in BlockNumbers, f \in MaxFinalized + 1 .. MaxBlock}
    /\ provider.finalized <= provider.head
    /\ IngestionNew
    /\ SegIdle
    /\ FltIdle
    /\ SelIdle
    /\ PipIdle
    /\ BcIdle

IngFinalizedSpec == IngFinalizedInit /\ [][IngNext]_vars

DurableWrites ==
    (IF kv' # kv THEN 1 ELSE 0)
    + (IF recent' # recent THEN 1 ELSE 0)
    + (IF segments' # segments THEN 1 ELSE 0)

\* C29: every tick of tick_ingest makes at most one durable write, and that
\* write is the update of the state client: a tick writes neither the recent
\* segment nor a chain segment.
C29_OneDurableWritePerTick ==
    [][(TickCancelled \/ RefreshFinalized \/ RefreshHead \/ FinishIngestion) =>
            /\ DurableWrites <= 1
            /\ recent' = recent
            /\ segments' = segments]_vars

\* ------------------------------------------------------------------------
\* tick_ingest: the `tokio::select! { biased; ... }` that picks the branch
\* of a tick (src/common/src/ingestion/service.rs, lines 254-373)
\* ------------------------------------------------------------------------

\* The branches in the order the select lists and, being biased, polls them.
Branches == <<"cancelled", "refresh_finalized", "refresh_head", "finish_ingestion">>

branch_enabled_always(branch, queue) == TRUE

\* The precondition of a branch: `, if !self.task_queue.is_empty()` on the
\* branch of task_queue.next(), none on the others.
branch_enabled(branch, queue) == branch # "finish_ingestion" \/ queue # <<>>

\* Whether the future of a branch is ready when polled: the token is
\* cancelled, the interval has elapsed, or task_queue.next() has a value,
\* which on an empty queue is None at once and otherwise is the result of
\* the oldest task once that task is done.
future_ready(r, branch) ==
    CASE branch = "cancelled" -> r.cancelled
      [] branch = "refresh_finalized" -> r.finalized_refresh_interval
      [] branch = "refresh_head" -> r.head_refresh_interval
      [] branch = "finish_ingestion" ->
             r.task_queue = <<>> \/ task_queue_next(r.task_queue) # {}

\* The select: the first branch in order that is enabled and ready runs;
\* with none, the select stays pending.
select_biased(r) ==
    LET able == {i \in DOMAIN Branches :
                    /\ branch_enabled(Branches[i], r.task_queue)
                    /\ future_ready(r, Branches[i])}
    IN  IF able = {} THEN {} ELSE {Branches[MinOf(able)]}

\* A tick_ingest about to select, nothing ready and no task spawned.
SelInit ==
    /\ SeqIdle
    /\ IngIdle
    /\ SegIdle
    /\ FltIdle
    /\ PipIdle
    /\ BcIdle
    /\ ready = [cancelled |-> FALSE, finalized_refresh_interval |-> FALSE,
                head_refresh_interval |-> FALSE, task_queue |-> <<>>]
    /\ fired = {}

\* tick_ingest runs the branch the select picks: an interval that ticked is
\* armed again, a task whose result was taken leaves the queue.
TickSelect ==
    /\ select_biased(ready) # {}
    /\ fired' = select_biased(ready)
    /\ ready' =
           [cancelled |-> ready.cancelled,
            finalized_refresh_interval |->
                ready.finalized_refresh_interval
                    /\ "refresh_finalized" \notin select_biased(ready),
            head_refresh_interval |->
                ready.head_refresh_interval
                    /\ "refresh_head" \notin select_biased(ready),
            task_queue |->
                IF "finish_ingestion" \in select_biased(ready)
                       /\ ready.task_queue # <<>>
                THEN remove_task(ready.task_queue, 1)
                ELSE ready.task_queue]
    /\ UNCHANGED nonSelVars

\* The cancellation token is cancelled.
SelCancelled ==
    /\ ~ready.cancelled
    /\ ready' = [ready EXCEPT !.cancelled = TRUE]
    /\ UNCHANGED fired
    /\ UNCHANGED nonSelVars

\* finalized_refresh_interval elapses.
FinalizedIntervalElapses ==
    /\ ~ready.finalized_refresh_interval
    /\ ready' = [ready EXCEPT !.finalized_refresh_interval = TRUE]
    /\ UNCHANGED fired
    /\ UNCHANGED nonSelVars

\* head_refresh_interval elapses.
HeadIntervalElapses ==
    /\ ~ready.head_refresh_interval
    /\ ready' = [ready EXCEPT !.head_refresh_interval = TRUE]
    /\ UNCHANGED fired
    /\ UNCHANGED nonSelVars

\* A download task is pushed to the queue.
SelPushTask ==
    /\ can_push_task(ready.task_queue)
    /\ ready' = [ready EXCEPT
           !.task_queue = Append(@, Task(Len(ready.task_queue) + 1))]
    /\ UNCHANGED fired
    /\ UNCHANGED nonSelVars

\* A download task of the queue finishes.
SelTaskFinishes ==
    /\ \E i \in DOMAIN ready.task_queue :
           /\ ready.task_queue[i].status = "running"
           /\ ready' = [ready EXCEPT !.task_queue[i].status = "done"]
    /\ UNCHANGED fired
    /\ UNCHANGED nonSelVars

SelNext ==
    \/ TickSelect
    \/ SelCancelled
    \/ FinalizedIntervalElapses
    \/ HeadIntervalElapses
    \/ SelPushTask
    \/ SelTaskFinishes

SelSpec == SelInit /\ [][SelNext]_vars

\* C30: each tick runs exactly one branch; when several are ready the
\* cancellation comes before the finalized refresh, that before the head
\* refresh, and that before a finished download; and the branch of the
\* finished download runs only when the task queue is not empty.
C30_OneBranchByPriority ==
    [][TickSelect =>
        /\ Cardinality(fired') = 1
        /\ ready.cancelled => fired' = {"cancelled"}
        /\ (~ready.cancelled /\ ready.finalized_refresh_interval) =>
               fired' = {"refresh_finalized"}
        /\ (/\ ~ready.cancelled
            /\ ~ready.finalized_refresh_interval
            /\ ready.head_refresh_interval) =>
               fired' = {"refresh_head"}
        /\ fired' = {"finish_ingestion"} =>
               /\ ready.task_queue # <<>>
               /\ ready.task_queue[1].status = "done"
               /\ ready'.task_queue = Tail(ready.task_queue)]_vars

\* The finalized refresh ran and was armed again; the head interval has
\* elapsed and a finished download waits in the queue.
C30_Witness ==
    /\ fired = {"refresh_finalized"}
    /\ ~ready.cancelled
    /\ ~ready.finalized_refresh_interval
    /\ ready.head_refresh_interval
    /\ ready.task_queue # <<>>
    /\ ready.task_queue[1].status = "done"

IngAnyInit == IngInit \/ IngResumeInit

IngAnyNext ==
    \/ Initialize
    \/ InitializeResume
    \/ IngLoop

IngAnySpec == IngAnyInit /\ [][IngAnyNext]_vars

\* C32: initialize without a stored recent segment writes the starting
\* block (the override, else 0) as starting_block, grows it as the first
\* block of the builder and sets queued_block_number to its number; with a
\* stored recent segment it leaves starting_block alone, restores the
\* builder from the segment and sets queued_block_number to the number of
\* its last block. No task is pushed by initialize, and every download
\* queued afterwards is for a block after the tip of the builder, the first
\* of them for the block right after queued_block_number.
C32_Initialization ==
    [][/\ (Initialize /\ phase' = "Ingest") =>
              /\ kv'.starting_block \in
                     {Some(n) : n \in {starting_block_default} \union (1 .. MaxStartingBlock)}
              /\ chain_builder' =
                     <<ProviderBlock(provider, Unwrap(kv'.starting_block))>>
              /\ cursor(chain_builder'[1]) \in blocks'
              /\ state'.queued_block_number = Unwrap(kv'.starting_block)
              /\ task_queue' = <<>>
       /\ (InitializeResume /\ phase' = "Ingest") =>
              /\ kv'.starting_block = kv.starting_block
              /\ chain_builder' = Unwrap(recent).segment
              /\ state'.queued_block_number = Last(Unwrap(recent).segment).number
              /\ task_queue' = <<>>
              /\ UNCHANGED <<recent, segments, blocks>>
       /\ phase = "Ingest" =>
              QueuedNumbers(task_queue') \ QueuedNumbers(task_queue) =
                  state.queued_block_number + 1 .. state'.queued_block_number
       /\ (phase' = "Ingest") =>
              \A i \in DOMAIN task_queue' :
                  task_queue'[i].number > Last(chain_builder').number]_vars

\* A service resumed from a stored recent segment queued the download of
\* the block after the restored last block.
C32_Witness ==
    /\ phase = "Ingest"
    /\ kv.starting_block = Some(0)
    /\ recent # {}
    /\ chain_builder = Unwrap(recent).segment
    /\ task_queue # <<>>
    /\ task_queue[1].number = Last(Unwrap(recent).segment).number + 1
    /\ tick = Tick("refresh_head", "updated")

\* C33: a call of register on stream S, whether it succeeds or fails, leaves
\* every existing row of the sequencer table as it is and leaves the stream
\* state of every other stream as it is; rows disappear only in a successful
\* invalidate.
C33_RegisterKeepsRows ==
    [][/\ last'.op = "register" =>
              /\ \A key \in DOMAIN seqMap :
                     key \in DOMAIN seqMap' /\ seqMap'[key] = seqMap[key]
              /\ \A s \in (DOMAIN streamState \union DOMAIN streamState') \ {last'.stream} :
                     /\ s \in DOMAIN streamState
                     /\ s \in DOMAIN streamState'
                     /\ streamState'[s] = streamState[s]
       /\ (DOMAIN seqMap \ DOMAIN seqMap' # {}) =>
              (last'.op = "invalidate" /\ last'.status = "Ok")]_vars

\* A register on one stream succeeded while another stream had a row, and
\* that row is still what it was.
C33_Witness ==
    /\ last.op = "register"
    /\ last.status = "Ok"
    /\ \E key \in DOMAIN pre.seqMap :
           /\ key[1] # last.stream
           /\ key \in DOMAIN seqMap
           /\ seqMap[key] = pre.seqMap[key]
    /\ <<last.stream, last.sequence>> \in DOMAIN seqMap
    /\ <<last.stream, last.sequence>> \notin DOMAIN pre.seqMap

\* C34: a compaction starts only when first_block_in_segment + segment_size
\* is at most the smaller of the finalized and the head block number; so
\* every block put into a segment is finalized, and the segmented number
\* that is stored is below both the finalized and the head block number.
C34_CompactsFinalizedOnly ==
    [][/\ (compaction.pc = "loop" /\ compaction'.pc = "upload") =>
              /\ compaction'.first_block_in_segment + compaction'.segment_size
                     <= Min(chain_view.finalized, chain_view.head)
              /\ \A i \in DOMAIN compaction'.builder :
                     compaction'.builder[i] <= chain_view.finalized
              /\ compaction'.last_block_in_segment < chain_view.finalized
              /\ compaction'.last_block_in_segment < chain_view.head
       /\ chain_view'.segmented # chain_view.segmented =>
              /\ chain_view'.segmented = Some(compaction.last_block_in_segment)
              /\ Unwrap(chain_view'.segmented) < chain_view.finalized
              /\ Unwrap(chain_view'.segmented) < chain_view.head]_vars

\* A segment was compacted and its number stored while the finalized block
\* is below the head.
C34_Witness ==
    /\ compaction.outcome = "segmented"
    /\ chain_view.segmented = Some(compaction.last_block_in_segment)
    /\ compaction.segment_size > 1
    /\ chain_view.finalized < chain_view.head

\* =================================================================
\* SegmentService::compact_segment, the pipeline of block downloads
\* =================================================================

\* A download pushed into the queue: the cursor it asks for and, once it is
\* done, what it returned.
Download(number) == [asked |-> number, result |-> {}]

\* block_queue.push_back(get_block_and_cursor(block_cursor))
push_back(queue, number) == Append(queue, Download(number))

\* compact_segment is called by start when enough blocks are available for
\* a segment of some size from some first block on.
PipInit ==
    /\ SeqIdle
    /\ IngIdle
    /\ SegIdle
    /\ FltIdle
    /\ SelIdle
    /\ BcIdle
    /\ block_queue = <<>>
    /\ \E size \in SegmentSizes, h \in ViewBlocks, f \in ViewBlocks,
          first \in ViewBlocks :
           LET view == [head |-> h, finalized |-> f, starting |-> first,
                        segmented |-> {}]
           IN  /\ f <= h
               /\ can_compact(view, first, size)
               /\ compacting =
                      [pc |-> "push", view |-> view, segment_size |-> size,
                       first_block_in_segment |-> first, current |-> first,
                       last_block_in_segment |-> first, builder |-> <<>>,
                       count |-> 0, issued |-> <<>>, taken |-> <<>>,
                       completed |-> <<>>]

\* The download of `current` was pushed: the chain view gives the next cursor
\* (an error when it has none) and the loop counts one more iteration; after
\* the last of `iterations` the function goes on at `then`.
pushed_and_advanced(c, iterations, then) ==
    LET next == get_next_cursor(c.view, c.current)
        pushed == [c EXCEPT !.issued = Append(@, c.current)]
    IN  IF next = {}
        THEN [pushed EXCEPT !.pc = "failed"]
        ELSE IF c.count + 1 < iterations
        THEN [pushed EXCEPT !.current = Unwrap(next), !.count = @ + 1]
        ELSE [pushed EXCEPT !.current = Unwrap(next), !.count = 0, !.pc = then]

\* The first loop, `for _ in 0..buffered_queue_size`: push the download of
\* the current cursor and move to the next cursor.
PushDownload ==
    /\ compacting.pc = "push"
    /\ block_queue' = push_back(block_queue, compacting.current)
    /\ compacting' =
           pushed_and_advanced(
               compacting, buffered_queue_size(compacting.segment_size),
               IF compacting.segment_size >
                      buffered_queue_size(compacting.segment_size)
               THEN "refill" ELSE "drain")
    /\ UNCHANGED nonPipVars

\* While compact_segment awaits block_queue.next(), any download of the
\* queue that is not done may complete, with the block or with an error.
DownloadCompletes ==
    /\ compacting.pc \in {"refill", "drain"}
    /\ \E i \in DOMAIN block_queue :
           /\ block_queue[i].result = {}
           /\ \E r \in ReturnedIntact(block_queue[i].asked) :
                  block_queue' = [block_queue EXCEPT ![i].result = Some(r)]
           /\ compacting' = [compacting EXCEPT
                  !.completed = Append(@, block_queue[i].asked)]
    /\ UNCHANGED nonPipVars

\* block_queue.next() resolves with the result of the oldest download.
next_is_ready == block_queue # <<>> /\ Head(block_queue).result # {}

\* The block taken from the queue is added to the builder and becomes the
\* last block of the segment.
block_added(c, download) ==
    [c EXCEPT !.builder = add_block(@, Unwrap(download.result).number),
              !.last_block_in_segment = Unwrap(download.result).number,
              !.taken = Append(@, download.asked)]

\* The second loop, `for _ in buffered_queue_size..self.segment_size`: take
\* the oldest download, add its block, push the download of the current
\* cursor and move to the next cursor.
TakeAndPush ==
    /\ compacting.pc = "refill"
    /\ next_is_ready
    /\ IF ~Unwrap(Head(block_queue).result).ok
       THEN /\ compacting' = [compacting EXCEPT !.pc = "failed"]
            /\ block_queue' = Tail(block_queue)
       ELSE /\ block_queue' = push_back(Tail(block_queue), compacting.current)
            /\ compacting' =
                   pushed_and_advanced(
                       block_added(compacting, Head(block_queue)),
                       compacting.segment_size -
                           buffered_queue_size(compacting.segment_size),
                       "drain")
    /\ UNCHANGED nonPipVars

\* The last loop, `for _ in 0..buffered_queue_size`: take the oldest
\* download, add its block and check its number; after the last one, the
\* sanity check of the block count.
TakeLast ==
    /\ compacting.pc = "drain"
    /\ next_is_ready
    /\ block_queue' = Tail(block_queue)
    /\ LET r == Unwrap(Head(block_queue).result)
           added == block_added(compacting, Head(block_queue))
       IN  compacting' =
               IF ~r.ok
               THEN [compacting EXCEPT !.pc = "failed"]
               ELSE IF number_does_not_match(
                           compacting.first_block_in_segment,
                           compacting.last_block_in_segment, r.number)
               THEN [added EXCEPT !.pc = "failed",
                         !.last_block_in_segment =
                             compacting.last_block_in_segment]
               ELSE IF compacting.count + 1 <
                           buffered_queue_size(compacting.segment_size)
               THEN [added EXCEPT !.count = @ + 1]
               ELSE IF block_count(added.builder) # compacting.segment_size
               THEN [added EXCEPT !.pc = "failed"]
               ELSE [added EXCEPT !.pc = "built", !.count = 0]
    /\ UNCHANGED nonPipVars

PipNext ==
    \/ PushDownload
    \/ DownloadCompletes
    \/ TakeAndPush
    \/ TakeLast

PipSpec == PipInit /\ [][PipNext]_vars

\* The cursors asked for by the downloads in `queue`, in order.
AskedOf(queue) == [i \in DOMAIN queue |-> queue[i].asked]

\* C35: in compact_segment at most min(segment_size, MAX_BUFFERED_BLOCKS)
\* downloads are in the queue at any time; the downloads are issued for
\* first_block_in_segment and its successors, segment_size of them in all;
\* the blocks reach the builder in the order the downloads were issued,
\* whatever the order in which they complete, and a compaction that passes
\* its checks has segment_size blocks, the last one numbered
\* first + segment_size - 1.
C35_BoundedOrderedPipeline ==
    /\ Len(block_queue) <= Min(compacting.segment_size, MAX_BUFFERED_BLOCKS)
    /\ Len(compacting.issued) <= compacting.segment_size
    /\ \A i \in DOMAIN compacting.issued :
           compacting.issued[i] = compacting.first_block_in_segment + i - 1
    /\ compacting.pc # "failed" =>
           compacting.taken \o AskedOf(block_queue) = compacting.issued
    /\ compacting.pc = "built" =>
           /\ Len(compacting.issued) = compacting.segment_size
           /\ block_queue = <<>>
           /\ block_count(compacting.builder) = compacting.segment_size
           /\ compacting.builder = compacting.issued
           /\ compacting.last_block_in_segment =
                  compacting.first_block_in_segment
                      + compacting.segment_size - 1

\* A segment larger than the queue was built from downloads that completed
\* in another order than they were issued.
C35_Witness ==
    /\ compacting.pc = "built"
    /\ compacting.segment_size > MAX_BUFFERED_BLOCKS
    /\ Len(compacting.completed) = compacting.segment_size
    /\ compacting.completed # compacting.issued

\* C36: the segmented number is written only by put_segmented, after every
\* artifact of the segment was uploaded, and is then the number of the last
\* block of the segment; each segment starts at the successor of the
\* segmented number before it (at the starting cursor when there is none),
\* so the segmented number grows by segment_size with every compaction and
\* segments neither overlap nor leave a gap.
C36_SegmentedAfterUpload ==
    [][/\ chain_view'.segmented # chain_view.segmented =>
              (compaction.pc = "upload" /\ compaction'.outcome = "segmented")
       /\ (compaction.pc = "upload" /\ compaction'.pc = "loop") =>
              /\ compaction.pending = <<>>
              /\ \A name \in ArtifactNames :
                     <<compaction.first_block_in_segment, name>>
                         \in segment_store
              /\ chain_view'.segmented = Some(compaction.last_block_in_segment)
              /\ IF chain_view.segmented = {}
                 THEN /\ compaction.first_block_in_segment = chain_view.starting
                      /\ Unwrap(chain_view'.segmented) =
                             chain_view.starting + compaction.segment_size - 1
                 ELSE /\ compaction.first_block_in_segment =
                             Unwrap(chain_view.segmented) + 1
                      /\ Unwrap(chain_view'.segmented) =
                             Unwrap(chain_view.segmented)
                                 + compaction.segment_size]_vars

\* Two segments of two blocks were compacted one after the other.
C36_Witness ==
    /\ compaction.outcome = "segmented"
    /\ compaction.segment_size = 2
    /\ compaction.first_block_in_segment = 2
    /\ chain_view.segmented = Some(3)
    /\ \A name \in ArtifactNames :
           /\ <<0, name>> \in segment_store
           /\ <<2, name>> \in segment_store

\* =================================================================
\* SegmentService::start, the reads of a tick and the wait apart
\* =================================================================

\* start reads the segmented cursor, the head and the finalized cursor of
\* the chain view (an error when the view has no next cursor); the chain
\* view may change before the loop acts on what it read.
SegReadState ==
    /\ compaction.pc = "loop"
    /\ LET first == first_block_of_next_segment(chain_view)
       IN  IF first = {}
           THEN SegFails("invalid_cursor")
           ELSE /\ compaction' =
                       [pc |-> "read",
                        segment_size |-> compaction.segment_size,
                        first_block_in_segment |-> Unwrap(first),
                        last_block_in_segment |->
                            compaction.last_block_in_segment,
                        builder |-> compaction.builder,
                        pending |-> compaction.pending,
                        outcome |-> compaction.outcome,
                        seen |-> chain_view]
                /\ UNCHANGED seg_exit
    /\ UNCHANGED <<chain_view, segment_store>>
    /\ UNCHANGED nonSegVars

\* Enough blocks were available when the state was read: compact_segment.
SegCompactSeen == SegCompactOf(PipelinesIntact, "read", compaction.seen)

\* Too few blocks were available when the state was read: the loop starts to
\* wait for a change of the finalized cursor or of the head.
SegStartWait ==
    /\ compaction.pc = "read"
    /\ ~can_compact(compaction.seen, compaction.first_block_in_segment,
                    compaction.segment_size)
    /\ compaction' = [compaction EXCEPT
           !.pc = "waiting", !.outcome = state_change(compaction.seen)]
    /\ UNCHANGED <<chain_view, segment_store, seg_exit>>
    /\ UNCHANGED nonSegVars

\* ChainView::finalized_changed and head_changed resolve when the record
\* differs from the one the waiter has read, also when it changed before the
\* wait began.
state_changed(view, seen, signal) ==
    IF signal = "finalized_changed"
    THEN view.finalized # seen.finalized
    ELSE view.head # seen.head

\* The wait resolves and the loop of start goes on.
SegStateChanged ==
    /\ compaction.pc = "waiting"
    /\ state_changed(chain_view, compaction.seen, compaction.outcome)
    /\ compaction' = [compaction EXCEPT !.pc = "loop"]
    /\ UNCHANGED <<chain_view, segment_store, seg_exit>>
    /\ UNCHANGED nonSegVars

\* Ingestion moves the head of the chain view.
ViewHeadMoves ==
    /\ compaction.pc # "stopped"
    /\ chain_view.head < MaxViewBlock
    /\ chain_view' = [chain_view EXCEPT !.head = chain_view.head + 1]
    /\ UNCHANGED <<compaction, segment_store, seg_exit>>
    /\ UNCHANGED nonSegVars

\* Ingestion moves the finalized block of the chain view.
ViewFinalizedMoves ==
    /\ compaction.pc # "stopped"
    /\ chain_view.finalized < chain_view.head
    /\ chain_view' = [chain_view EXCEPT !.finalized = chain_view.finalized + 1]
    /\ UNCHANGED <<compaction, segment_store, seg_exit>>
    /\ UNCHANGED nonSegVars

SegTickNext ==
    \/ SegReadState
    \/ SegCompactSeen
    \/ SegStartWait
    \/ SegStateChanged
    \/ SegPutSegment
    \/ SegPutSegmented
    \/ SegCancel
    \/ ViewHeadMoves
    \/ ViewFinalizedMoves

\* The task of the service is scheduled whenever it can make a step; the
\* chain view changes and the token is cancelled when others choose.
SegFairness ==
    /\ WF_vars(SegReadState)
    /\ WF_vars(SegCompactSeen)
    /\ WF_vars(SegStartWait)
    /\ WF_vars(SegStateChanged)

SegTickSpec == SegInit /\ [][SegTickNext]_vars /\ SegFairness

\* The blocks of the next segment are available in the chain view and the
\* service has not started to compact them.
SegmentAvailable ==
    /\ compaction.pc \in {"loop", "read", "waiting"}
    /\ first_block_of_next_segment(chain_view) # {}
    /\ can_compact(chain_view, Unwrap(first_block_of_next_segment(chain_view)),
                   compaction.segment_size)

MESSAGE_CHANNEL_SIZE == 2
\* Number of messages published.
MaxPublished == 4
\* Number of clients that subscribe.
MaxSubscribers == 2

\* IngestionMessage: two of its four kinds, the channel treats all alike.
IngestionMessage == {"Finalized", "Accepted"}

\* IngestionStreamPublisher::new: the channel, with the sender and the
\* receiver the publisher keeps; no client has subscribed.
BcInit ==
    /\ SeqIdle
    /\ IngIdle
    /\ SegIdle
    /\ FltIdle
    /\ SelIdle
    /\ PipIdle
    /\ channel = [tail |-> 0, buffer |-> <<>>]
    /\ streams = <<>>
    /\ published = <<>>

\* The receivers of the clients only.
receiver_count_clients(subscribed) == Len(subscribed)

\* The receivers of the channel: the one the publisher holds in `_rx` and
\* one per stream of a client.
receiver_count(subscribed) == 1 + Len(subscribed)

\* broadcast::Sender::send: an error when the channel has no receiver;
\* otherwise the message takes the next position and the channel retains the
\* last MESSAGE_CHANNEL_SIZE messages.
send(chan, subscribed, message) ==
    IF receiver_count(subscribed) = 0
    THEN [result |-> "IngestionStreamPublish", channel |-> chan]
    ELSE LET sent == Append(chan.buffer,
                            [n |-> chan.tail + 1, message |-> message])
             from == IF Len(sent) > MESSAGE_CHANNEL_SIZE THEN 2 ELSE 1
         IN  [result |-> "Ok",
              channel |-> [tail |-> chan.tail + 1,
                           buffer |-> SubSeq(sent, from, Len(sent))]]

\* publish_finalized, publish_accepted, publish_pending, publish_invalidate
\* and BlockIngestor's block_tx.send
Publish ==
    /\ Len(published) < MaxPublished
    /\ \E message \in IngestionMessage :
           LET sent == send(channel, streams, message)
           IN  /\ channel' = sent.channel
               /\ published' = Append(published,
                      [result |-> sent.result, message |-> message])
    /\ UNCHANGED streams
    /\ UNCHANGED nonBcVars

\* IngestionStreamClient::subscribe and live_stream: a stream over a new
\* receiver, which starts after the messages sent so far.
Subscribe ==
    /\ Len(streams) < MaxSubscribers
    /\ streams' = Append(streams, [since |-> channel.tail,
                                   next |-> channel.tail + 1,
                                   yielded |-> <<>>])
    /\ UNCHANGED <<channel, published>>
    /\ UNCHANGED nonBcVars

\* The position of the oldest message the channel retains.
oldest(chan) == chan.tail - Len(chan.buffer) + 1

\* BroadcastStream::poll_next over Receiver::recv: the message at the
\* position of the receiver, or Lagged(missed) when that message is no longer
\* retained, the receiver then moving to the oldest retained message.
recv(chan, stream) ==
    IF stream.next < oldest(chan)
    THEN [stream EXCEPT
              !.next = oldest(chan),
              !.yielded = Append(@, [lagged |-> oldest(chan) - stream.next,
                                     n |-> 0, message |-> "none"])]
    ELSE LET item == chan.buffer[stream.next - oldest(chan) + 1]
         IN  [stream EXCEPT
                  !.next = @ + 1,
                  !.yielded = Append(@, [lagged |-> 0, n |-> item.n,
                                         message |-> item.message])]

\* A client polls its stream and an item is ready.
StreamNext ==
    /\ \E i \in DOMAIN streams :
           /\ streams[i].next <= channel.tail
           /\ streams' = [streams EXCEPT ![i] = recv(channel, streams[i])]
    /\ UNCHANGED <<channel, published>>
    /\ UNCHANGED nonBcVars

BcNext ==
    \/ Publish
    \/ Subscribe
    \/ StreamNext

BcSpec == BcInit /\ [][BcNext]_vars

\* The position after the items `yielded`, read from `expected` on: every
\* message is the one published at the expected position, and a lag error
\* moves the position by the number of messages it reports; -1 when an item
\* is out of place.
RECURSIVE PositionAfter(_, _)
PositionAfter(yielded, expected) ==
    IF yielded = <<>> \/ expected < 0
    THEN expected
    ELSE LET item == Head(yielded)
         IN  IF item.lagged > 0
             THEN PositionAfter(Tail(yielded), expected + item.lagged)
             ELSE IF /\ item.n = expected
                     /\ expected \in DOMAIN published
                     /\ item.message = published[expected].message
             THEN PositionAfter(Tail(yielded), expected + 1)
             ELSE -1

\* C38: every stream of a client yields the messages published since it
\* subscribed in the order they were published; where it skips messages it
\* yields a lag error for exactly the messages skipped, and it does so only
\* when it is more than the capacity of the channel behind; publish returns
\* Ok also when no client has subscribed.
C38_OrderedOrLagged ==
    /\ [](\A i \in DOMAIN streams :
             PositionAfter(streams[i].yielded, streams[i].since + 1)
                 = streams[i].next)
    /\ [](\A i \in DOMAIN published : published[i].result = "Ok")
    /\ [](Len(published) < MaxPublished => ENABLED Publish)
    /\ [][\A i \in DOMAIN streams :
              (i \in DOMAIN streams' /\ streams'[i] # streams[i]) =>
                  LET item == streams'[i].yielded[Len(streams'[i].yielded)]
                  IN  (item.lagged > 0) <=>
                          (channel.tail - streams[i].next + 1
                               > MESSAGE_CHANNEL_SIZE)]_vars

\* A client that subscribed before the first message and fell behind was
\* told so and then got the retained messages; a message was published
\* before any client subscribed.
C38_Witness ==
    /\ Len(published) = MaxPublished
    /\ \E i \in DOMAIN streams :
           /\ streams[i].since > 0
           /\ Len(streams[i].yielded) > 1
           /\ streams[i].yielded[1].lagged > 0
           /\ streams[i].yielded[2].lagged = 0
           /\ streams[i].next = channel.tail + 1

\* C39: in a run of the service the stored finalized number is written by
\* initialize and, after it, only by a refresh_finalized tick, which writes
\* a number at least as large as the one stored before; while the service
\* ingests, the stored number is the one of the finalized cursor it holds.
C39_FinalizedNeverDecreases ==
    /\ [][kv'.finalized # kv.finalized =>
              \/ phase = "New"
              \/ /\ phase = "Ingest"
                 /\ tick' = Tick("refresh_finalized", "updated")
                 /\ kv.finalized # {}
                 /\ kv'.finalized # {}
                 /\ Unwrap(kv'.finalized) >= Unwrap(kv.finalized)
                 /\ Unwrap(kv'.finalized) = get_finalized_cursor(provider).number]_vars
    /\ [][(phase = "New" /\ phase' # "New") =>
              kv'.finalized = Some(get_finalized_cursor(provider).number)]_vars
    /\ [](phase = "Ingest" => kv.finalized = Some(state.finalized.number))

\* A refresh_finalized tick has stored a larger finalized number.
C39_Witness ==
    /\ phase = "Ingest"
    /\ tick = Tick("refresh_finalized", "updated")
    /\ kv.finalized = Some(state.finalized.number)
    /\ state.finalized.number > 0

\* =================================================================
\* tick_ingest, the finish_ingestion branch write by write
\* =================================================================

\* The recent segment first, the chain segment that was cut last.
finish_ingestion_writes_recent_first(full, upload) ==
    (IF full \/ upload THEN <<"put_recent", "put_ingested">> ELSE <<>>)
        \o (IF full THEN <<"put">> ELSE <<>>)

\* The writes of a finish_ingestion tick in the order the branch makes them:
\* chain_store.put of the segment that was cut, then chain_store.put_recent
\* and state_client.put_ingested.
finish_ingestion_writes(full, upload) ==
    (IF full THEN <<"put">> ELSE <<>>)
        \o (IF full \/ upload THEN <<"put_recent", "put_ingested">> ELSE <<>>)

\* The branch up to its first write: the task is yielded, the chain builder
\* grows in memory and, when it is full, the segment is taken from it.
FinishIngestionBegin ==
    /\ phase = "Ingest"
    /\ ~cancelled
    /\ task_queue # <<>>
    /\ \E i \in task_queue_next(task_queue) :
           /\ task_queue' = remove_task(task_queue, i)
           /\ IF task_queue[i].status = "failed"
              THEN /\ Returns("RpcRequest", "finish_ingestion", "failed")
                   /\ UNCHANGED chain_builder
              ELSE LET block_info == Unwrap(task_queue[i].info)
                       grown == grow(chain_builder, block_info)
                       full == segment_is_full(grown)
                       taken == take_segment(grown, chain_segment_size)
                       upload == should_upload_recent_segment(block_info,
                                                              state.finalized)
                   IN  IF should_recover(chain_builder, block_info)
                       THEN /\ phase' = "Recover"
                            /\ tick' = Tick("finish_ingestion", "cannot_grow")
                            /\ UNCHANGED <<exit, chain_builder>>
                       ELSE /\ chain_builder' =
                                   IF full THEN taken.builder ELSE grown
                            /\ phase' = "Writing"
                            /\ tick' =
                                   [action |-> "finish_ingestion",
                                    outcome |-> "writing",
                                    pending |->
                                        finish_ingestion_writes(full, upload),
                                    segment |->
                                        IF full THEN taken.segment ELSE <<>>]
                            /\ UNCHANGED exit
    /\ UNCHANGED <<provider, state, blocks, segments, recent, kv, cancelled>>
    /\ UNCHANGED nonIngVars

\* The next write of the branch.
FinishIngestionWrite ==
    /\ phase = "Writing"
    /\ tick.pending # <<>>
    /\ LET write == Head(tick.pending)
       IN  /\ segments' = IF write = "put"
                          THEN segments \union {tick.segment}
                          ELSE segments
           /\ recent' = IF write = "put_recent"
                        THEN Some(put_recent(recent,
                                             current_segment(chain_builder)))
                        ELSE recent
           /\ kv' = IF write = "put_ingested"
                    THEN [kv EXCEPT !.ingested = Some(Unwrap(recent).etag)]
                    ELSE kv
    /\ tick' = [tick EXCEPT !.pending = Tail(@)]
    /\ UNCHANGED <<provider, phase, exit, state, task_queue, chain_builder,
                   blocks, cancelled>>
    /\ UNCHANGED nonIngVars

\* The end of the branch: the loop that pushes the next tasks.
FinishIngestionEnd ==
    /\ phase = "Writing"
    /\ tick.pending = <<>>
    /\ LET pushed == push_tasks(task_queue, state.queued_block_number,
                                state.head.number)
       IN  /\ task_queue' = pushed.queue
           /\ state' = [state EXCEPT
                           !.queued_block_number = pushed.block_number]
    /\ phase' = "Ingest"
    /\ tick' = Tick("finish_ingestion", "done")
    /\ UNCHANGED <<provider, exit, chain_builder, blocks, segments, recent,
                   kv, cancelled>>
    /\ UNCHANGED nonIngVars

\* The process ends between two writes of the branch; the stores keep what
\* was written.
TickInterrupted ==
    /\ phase = "Writing"
    /\ Returns("Crashed", "finish_ingestion", "interrupted")
    /\ UNCHANGED <<provider, state, task_queue, chain_builder, blocks,
                   segments, recent, kv, cancelled>>
    /\ UNCHANGED nonIngVars

IngWriteNext ==
    \/ Initialize
    \/ LoopCancelled
    \/ KeepAliveFailed
    \/ TickCancelled
    \/ RefreshFinalized
    \/ RefreshHead
    \/ FinishIngestionBegin
    \/ FinishIngestionWrite
    \/ FinishIngestionEnd
    \/ TickInterrupted
    \/ Recover
    \/ IngestBlockByNumber
    \/ ProviderHeadAdvance
    \/ ProviderFinalizedAdvance
    \/ ProviderFinalizedRegress
    \/ ProviderReorg
    \/ Cancel

IngWriteSpec == IngInit /\ [][IngWriteNext]_vars

\* The number of the last block of the chain segments in storage; the number
\* before the starting block when there is none.
LastImmutableBlock ==
    IF segments = {}
    THEN Unwrap(kv.starting_block) - 1
    ELSE CHOOSE n \in {s[Len(s)].number : s \in segments} :
             \A s \in segments : s[Len(s)].number <= n

\* C40: in every state of the stores, also between two writes of a tick and
\* after the process has ended between them, the recent segment in storage
\* starts at most one block after the last block of the chain segments in
\* storage: there is no gap between the chain segments and the recent
\* segment.
C40_NoGapBeforeRecent ==
    recent # {} =>
        Unwrap(recent).segment[1].number <= LastImmutableBlock + 1

\* The process ended after the chain segment was stored and before the
\* recent segment that no longer holds its blocks was.
C40_Witness ==
    /\ exit = "Crashed"
    /\ tick.action = "finish_ingestion"
    /\ segments # {}
    /\ recent # {}
    /\ Unwrap(recent).segment[1].number < LastImmutableBlock + 1
    /\ chain_builder[1].number = LastImmutableBlock + 1

====
